---- MODULE Spec2Model ----
(***************************************************************************)
(* Pluie texture pack toolchain: the debounced build queue                 *)
(* (src/build-queue.ts), the hot-reload watcher (src/watch.ts) with the    *)
(* deploy step it drives (src/deploy.ts), the asset pipeline               *)
(* (AssetPipeline in unnamed/part_003, build() in src/build.ts) and the    *)
(* atlas composer and decomposer (Beta173Transformer in unnamed/part_002,  *)
(* src/pipeline/terrain-decomposer.ts).                                    *)
(*                                                                         *)
(* Time is counted in ticks.  A timer is a countdown that may fire once it *)
(* has reached 0 (a Node timer never fires early, it may fire late).       *)
(* Every call of scheduleBuild / executeBuild is one entry of reqs, which  *)
(* follows the promise of that call from its timer to its settlement and,  *)
(* in the watcher, through the deploy step that awaits it.                 *)
(*                                                                         *)
(* A run of the pipeline is followed from await to await; each step that   *)
(* touches the file system can fail.  An image is known by the name of its *)
(* content and its size; the 256x256 atlas is known by the layers that     *)
(* were composited onto it.                                                *)
(***************************************************************************)
EXTENDS Integers, Sequences, FiniteSets, TLC

\* ---------------------------------------------------------------- bounds
MaxReq == 2
MaxCalls == 3
DebounceTicks == 2
CloseTimeoutTicks == 1
MaxEntries == 2
MaxRegister == 3
MaxFiles == 2
MaxDeploys == 2

\* ----------------------------------------------------------- environment
\* The directories of versions/ other than shared, sorted.
AvailableVersions == <<"v1", "v2">>

VersionSet == {AvailableVersions[n] : n \in 1..Len(AvailableVersions)}

\* Names that are no profile but can be the first component below versions/.
StrayNames == {"stray.png", "zz"}

Keys == VersionSet \cup StrayNames

\* The profiles the client of a bare BuildQueue asks for.
QueueKeys == {"v1", "v2"}

VARIABLES
    reqs,           \* one record per scheduleBuild / executeBuild call
    queues,         \* BuildQueue.queues: key -> id of the registered timer, 0 absent
    building,       \* BuildQueue.building
    sinceSched,     \* ticks since the last scheduleBuild(key), saturating
    burst,          \* key -> every scheduleBuild(key) so far came within the window
    output,         \* key -> which build last wrote output/Pluie-<key>.zip
    deployed,       \* key -> which build's artifact was copied to the target
    isRunning,      \* TextureWatcher.isRunning
    watchers,       \* length of TextureWatcher.watchers
    versions,       \* TextureWatcher.versions
    watched,        \* the versions whose directories the watcher observes
    fsw,            \* state of the chokidar watcher made by the last start()
    stopPc,         \* position of stop()
    closeRem,       \* countdown of stop()'s close timeout, -1 when none is live
    alive,          \* the process has not exited
    deployOnChange, \* config.deploy_on_change
    deployrc,       \* the .deployrc file
    lastEvent,      \* the last change event handled and the builds it scheduled
    now,            \* Date.now(): the name of the current millisecond
    scratch,        \* per call, the Date.now() in the name of its build's temporary directory
    clockRuns,      \* the session is followed millisecond by millisecond
    pipePc,         \* position of processVersion / build
    pipeCaller,     \* who called processVersion: a client ("direct") or build()
    pipeVersion,    \* the profile id of the call
    registry,       \* the registry's transformers: version -> transformer
    regCalls,       \* the register calls made on the registry, in order
    outputDirExists, \* outputDir of processVersion (build()'s .temp directory)
    buildDirExists, \* the .build directory inside outputDir
    discovery,      \* whether discovery has run and what it found
    pipeResult,     \* the ProcessResult of processVersion
    pvOutcome,      \* how processVersion ended: returned or thrown
    buildOutcome,   \* how build() ended: returned or thrown
    pipeFault,      \* the step of processVersion that threw
    removeFailed,   \* a removal of a directory has failed
    coordFile,      \* atlas_coordinates_terrain.json
    assets,         \* the inventory handed to transform()
    unusedOnDisk,   \* versions/shared/assets/blocks/unused.png exists
    undecodable,    \* the relative paths of the images sharp cannot decode
    atlasPc,        \* position of transform() / decomposeTextures()
    entryIdx,       \* the coordinate entry the composer's loop is at
    compositeLayers, \* compositeLayers of processTerrainGrid
    processedFiles, \* processedFiles of transform()
    skippedFiles,   \* skippedFiles of transform()
    copyIdx,        \* the asset the loop of copyOtherFiles is at
    terrainPng,     \* terrain.png in the output directory
    atlasResult,    \* what transform() returned
    outFiles,       \* the relative paths copied into the output directory
    decFile,        \* the file decomposeTextures was given
    positions,      \* positions of decomposeTextures
    decIdx,         \* the position the decomposer's loop is at
    extracted,      \* the textures written by the decomposer
    versionFiles,   \* the files of the directory of the profile being built
    tempFiles,      \* the files of build()'s temporary directory
    zipFiles,       \* the entries of the archive build() writes
    stepsDone,      \* the steps of the run that have completed, in order
    cmdPc,          \* position of the build command
    cmdEntry,       \* the entry point: the cli's build command or build.ts
    cmdArg,         \* the version argument of the command
    cmdVersions,    \* versions of the 'all' loop
    batchIdx,       \* the version the loop is at
    successCount,   \* successCount of the loop
    failureCount,   \* failureCount of buildAll
    attempts,       \* the build() calls of the command and how each ended
    exited,         \* the process of the command has ended
    exitCode,       \* its exit code
    sourceTree,     \* the directory discovery walks: its files, the unreadable ones
    discPc,         \* position of discoverAssets / of the pipeline's loose-file loop
    discWho,        \* which of the two loops runs
    fileIdx,        \* the file the loop is at
    discAssets,     \* the assets list of the loop
    discResult,     \* what the loop returned
    deploying,      \* version -> the deployTexturePack call in flight and its config
    sourceZip,      \* version -> the artifact at output/Pluie-<version>.zip
    targetZip,      \* version -> the artifact at the target path
    backupDir,      \* BACKUP_DIR and the backup copies in it
    deployLog,      \* the files deployTexturePack has written, in order
    deploys         \* the deployTexturePack calls made so far

queueVars == <<reqs, queues, building, sinceSched, burst, output>>
watchVars == <<deployed, isRunning, watchers, versions, watched, fsw, stopPc,
               closeRem, alive, deployOnChange, deployrc, lastEvent, now, scratch,
               clockRuns>>
vars == <<reqs, queues, building, sinceSched, burst, output, deployed, isRunning,
          watchers, versions, watched, fsw, stopPc, closeRem, alive,
          deployOnChange, deployrc, lastEvent, now, scratch, clockRuns,
          pipePc, pipeCaller, pipeVersion, registry, regCalls, outputDirExists,
          buildDirExists, discovery, pipeResult, pvOutcome, buildOutcome,
          pipeFault, removeFailed, coordFile, assets, unusedOnDisk, undecodable,
          atlasPc, entryIdx, compositeLayers, processedFiles, skippedFiles, copyIdx,
          terrainPng, atlasResult, outFiles, decFile, positions, decIdx,
          extracted, versionFiles, tempFiles, zipFiles, stepsDone,
          cmdPc, cmdEntry, cmdArg, cmdVersions, batchIdx, successCount,
          failureCount, attempts, exited, exitCode,
          sourceTree, discPc, discWho, fileIdx, discAssets, discResult,
          deploying, sourceZip, targetZip, backupDir, deployLog, deploys>>
pipeVars == <<pipePc, pipeCaller, pipeVersion, registry, regCalls,
              outputDirExists,
              buildDirExists, discovery, pipeResult, pvOutcome, buildOutcome,
              pipeFault, removeFailed>>
atlasVars == <<coordFile, assets, unusedOnDisk, undecodable, atlasPc, entryIdx,
               compositeLayers, processedFiles, skippedFiles, copyIdx,
               terrainPng, atlasResult, outFiles, decFile, positions, decIdx,
               extracted>>
outVars == <<versionFiles, tempFiles, zipFiles, stepsDone>>
cmdVars == <<cmdPc, cmdEntry, cmdArg, cmdVersions, batchIdx, successCount,
             failureCount, attempts, exited, exitCode>>
discVars == <<sourceTree, discPc, discWho, fileIdx, discAssets, discResult>>
toolVars == <<cmdPc, cmdEntry, cmdArg, cmdVersions, batchIdx, successCount,
              failureCount, attempts, exited, exitCode,
              sourceTree, discPc, discWho, fileIdx, discAssets, discResult,
              deploying, sourceZip, targetZip, backupDir, deployLog, deploys>>
depVars == <<deploying, sourceZip, targetZip, backupDir, deployLog, deploys>>

\* ------------------------------------- the pipeline and the composer at rest
\* The second id Beta173Transformer.isApplicable accepts ('beta1.7.3').
Beta173Alias == "beta"

\* The profile ids handed to processVersion and build: the profile
\* directories and two names that are no directory, one of them the other
\* name Beta173Transformer answers to ('beta1.7.3').
PipeIds == VersionSet \cup {"zz", Beta173Alias}

\* DefaultTransformerRegistry.transformers after construction.
EmptyRegistry == [k \in PipeIds |-> "none"]

\* A ProcessResult; NoResult stands for the result that does not exist yet.
NoResult == [success |-> FALSE, error |-> "pending",
             processedFiles |-> <<>>, skippedFiles |-> <<>>]

\* A pipeline after construction, before any call.
PipeIdle ==
    /\ pipePc = "idle"
    /\ pipeCaller = "none"
    /\ pipeVersion = "none"
    /\ registry = EmptyRegistry
    /\ regCalls = <<>>
    /\ outputDirExists = FALSE
    /\ buildDirExists = FALSE
    /\ discovery = "notRun"
    /\ pipeResult = NoResult
    /\ pvOutcome = "none"
    /\ buildOutcome = "none"
    /\ pipeFault = "none"
    /\ removeFailed = FALSE

NoCoordinateFile ==
    [exists |-> FALSE,
     data |-> [rows |-> 1, cols |-> 2, tile_size |-> 16, coordinates |-> <<>>]]

\* A transformer and a decomposer before any call, the output directories
\* empty.
AtlasState ==
    /\ atlasPc = "idle"
    /\ entryIdx = 1
    /\ compositeLayers = <<>>
    /\ processedFiles = <<>>
    /\ skippedFiles = <<>>
    /\ copyIdx = 1
    /\ terrainPng = [written |-> FALSE, layers |-> <<>>]
    /\ atlasResult = [returned |-> FALSE, success |-> FALSE, error |-> "none"]
    /\ outFiles = {}
    /\ decFile = "none"
    /\ positions = <<>>
    /\ decIdx = 1
    /\ extracted = {}

AtlasIdle ==
    /\ coordFile = NoCoordinateFile
    /\ assets = <<>>
    /\ unusedOnDisk = FALSE
    /\ undecodable = {}
    /\ AtlasState

\* The elements of a list.
Range(s) == {s[i] : i \in 1..Len(s)}

\* The relative paths a profile directory can hold: the atlas, which the
\* transform writes too, and the pack descriptor.
ProfilePaths == {"terrain.png", "pack.txt"}

\* The entries an archive can hold: the files of the temporary directory and
\* the info file build() appends.
ArchivePaths == ProfilePaths \cup {"INFO.txt"}

\* A directory is known by where the file at each path came from: the
\* pipeline, or the profile's own directory.
NoFiles == [p \in ProfilePaths |-> "none"]

NoArchive == [p \in ArchivePaths |-> "none"]

\* No temporary directory, no archive, no step taken.
OutState ==
    /\ tempFiles = NoFiles
    /\ zipFiles = NoArchive
    /\ stepsDone = <<>>

OutIdle ==
    /\ versionFiles = {}
    /\ OutState

\* No command has been given.
CmdIdle ==
    /\ cmdPc = "idle"
    /\ cmdEntry = "none"
    /\ cmdArg = "none"
    /\ cmdVersions = <<>>
    /\ batchIdx = 1
    /\ successCount = 0
    /\ failureCount = 0
    /\ attempts = <<>>
    /\ exited = FALSE
    /\ exitCode = 0

NoTree == [exists |-> FALSE, files |-> <<>>, unreadable |-> {}]

NoInventory == [returned |-> FALSE, assets |-> <<>>, totalFiles |-> 0,
                discoveredTypes |-> {}]

\* A discovery that has not begun.
DiscState ==
    /\ discPc = "idle"
    /\ discWho = "none"
    /\ fileIdx = 1
    /\ discAssets = <<>>
    /\ discResult = NoInventory

DiscIdle ==
    /\ sourceTree = NoTree
    /\ DiscState

\* No deployTexturePack call in flight.
NoDeploy == [active |-> FALSE, backup |-> FALSE, id |-> 0]

\* Nothing built, nothing deployed and no backup directory.
DepIdle ==
    /\ deploying = [v \in VersionSet |-> NoDeploy]
    /\ sourceZip = [v \in VersionSet |-> {}]
    /\ targetZip = [v \in VersionSet |-> {}]
    /\ backupDir = [exists |-> FALSE, files |-> {}]
    /\ deployLog = <<>>
    /\ deploys = 0

ToolsIdle == CmdIdle /\ DiscIdle /\ DepIdle

\* ------------------------------------------------------------ BuildQueue
\* The queue's fields as one value, so that a handler can apply several calls.
QueueState == [reqs |-> reqs, queues |-> queues, building |-> building,
               sinceSched |-> sinceSched, burst |-> burst]

Ids(rs) == 1..Len(rs)

\* A call has started a build of its key through executeBuild.
StartedStates == {"running", "failed", "built", "noConfig", "exit",
                  "deploying", "deployed", "deployFailed"}

PriorSched(rs, version) ==
    \E i \in Ids(rs) : rs[i].key = version /\ rs[i].kind = "sched"

\* clearTimeout: a timer that has not fired is removed from the runtime, its
\* promise is left unsettled; clearing a fired timer does nothing.
clearTimeout(rs, i) ==
    IF rs[i].st = "timer"
    THEN [rs EXCEPT ![i].st = "cleared", ![i].rem = 0]
    ELSE rs

newTimer(q, version) ==
    [key |-> version, kind |-> "sched", st |-> "timer", rem |-> DebounceTicks,
     busy |-> version \in q.building, early |-> FALSE, late |-> FALSE]

\* Mutant of scheduleBuild: the existing timer is not cleared.
scheduleBuild_noClear(q, version) ==
    [q EXCEPT !.reqs = Append(q.reqs, newTimer(q, version)),
              !.queues[version] = Len(q.reqs) + 1,
              !.sinceSched[version] = 0,
              !.burst[version] = q.burst[version]
                  /\ (~PriorSched(q.reqs, version)
                      \/ q.sinceSched[version] < DebounceTicks)]

scheduleBuild(q, version) ==
    LET existingTimeout == q.queues[version]
        rs == IF existingTimeout # 0
              THEN clearTimeout(q.reqs, existingTimeout)
              ELSE q.reqs
    IN [q EXCEPT !.reqs = Append(rs, newTimer(q, version)),
                 !.queues[version] = Len(q.reqs) + 1,
                 !.sinceSched[version] = 0,
                 !.burst[version] = q.burst[version]
                     /\ (~PriorSched(q.reqs, version)
                         \/ q.sinceSched[version] < DebounceTicks)]

\* Mutant of executeBuild: no check of the building set.
executeBuild_noGuard(q, i) ==
    [q EXCEPT !.building = q.building \cup {q.reqs[i].key},
              !.reqs[i].st = "running",
              !.reqs[i].early = q.reqs[i].kind = "sched"
                  /\ q.sinceSched[q.reqs[i].key] < DebounceTicks]

\* Mutant of executeBuild: the rejection runs the finally block.
executeBuild_rejectInTry(q, i) ==
    LET version == q.reqs[i].key IN
    IF version \in q.building
    THEN [q EXCEPT !.reqs[i].st = "rejected",
                   !.building = q.building \ {version}]
    ELSE [q EXCEPT !.building = q.building \cup {version},
                   !.reqs[i].st = "running",
                   !.reqs[i].early = q.reqs[i].kind = "sched"
                       /\ q.sinceSched[version] < DebounceTicks]

\* executeBuild up to its first await: the throw of line 57 leaves building
\* alone, otherwise the build of call i is in flight.
executeBuild(q, i) ==
    LET version == q.reqs[i].key IN
    IF version \in q.building
    THEN [q EXCEPT !.reqs[i].st = "rejected"]
    ELSE [q EXCEPT !.building = q.building \cup {version},
                   !.reqs[i].st = "running",
                   !.reqs[i].early = q.reqs[i].kind = "sched"
                       /\ q.sinceSched[version] < DebounceTicks]

\* Mutant of finallyBlock: the version is deleted after a build that
\* resolved only.
finallyBlock_onSuccess(b, version, ok) ==
    IF ok THEN b \ {version} ELSE b

\* The finally block of executeBuild: it runs whether build() resolved (ok)
\* or threw.
finallyBlock(b, version, ok) == b \ {version}

\* The setTimeout callback of scheduleBuild.
timerCallback(q, i) ==
    executeBuild([q EXCEPT !.queues[q.reqs[i].key] = 0], i)

\* Mutant of cancelPendingBuild: the timers of all profiles are cleared.
cancelPendingBuild_allProfiles(q, version) ==
    LET timeout == q.queues[version] IN
    IF timeout # 0
    THEN [q EXCEPT !.reqs = [i \in Ids(q.reqs) |->
                               IF q.reqs[i].st = "timer"
                               THEN [q.reqs[i] EXCEPT !.st = "cleared", !.rem = 0]
                               ELSE q.reqs[i]],
                   !.queues = [k \in Keys |-> 0],
                   !.burst[version] = FALSE]
    ELSE q

cancelPendingBuild(q, version) ==
    LET timeout == q.queues[version] IN
    IF timeout # 0
    THEN [q EXCEPT !.reqs = clearTimeout(q.reqs, timeout),
                   !.queues[version] = 0,
                   !.burst[version] = FALSE]
    ELSE q

\* Mutant of cancelAllPending: the building set is emptied as well.
cancelAllPending_clearsBuilding(q) ==
    [q EXCEPT !.reqs = [i \in Ids(q.reqs) |->
                          IF q.queues[q.reqs[i].key] = i /\ q.reqs[i].st = "timer"
                          THEN [q.reqs[i] EXCEPT !.st = "cleared", !.rem = 0]
                          ELSE q.reqs[i]],
              !.queues = [k \in Keys |-> 0],
              !.building = {},
              !.burst = [k \in Keys |-> q.burst[k] /\ q.queues[k] = 0]]

cancelAllPending(q) ==
    [q EXCEPT !.reqs = [i \in Ids(q.reqs) |->
                          IF q.queues[q.reqs[i].key] = i /\ q.reqs[i].st = "timer"
                          THEN [q.reqs[i] EXCEPT !.st = "cleared", !.rem = 0]
                          ELSE q.reqs[i]],
              !.queues = [k \in Keys |-> 0],
              !.burst = [k \in Keys |-> q.burst[k] /\ q.queues[k] = 0]]

SetQueue(q) ==
    /\ reqs' = q.reqs
    /\ queues' = q.queues
    /\ building' = q.building
    /\ sinceSched' = q.sinceSched
    /\ burst' = q.burst

\* ------------------------------------------------------- build and deploy
\* build(version) throws at once unless versions/<version> is a directory.
validateVersion(version) == version \in VersionSet

\* parseDeployConfig: does it return (TRUE) or call process.exit(1) (FALSE).
parseDeployConfig == deployrc.exists

\* Where the promise chain of call i stands once its build has ended:
\* buildAndDeployVersion after the await of line 147, down to the build that
\* deployTexturePack starts.
afterBuild(r, ok) ==
    IF ~ok THEN "failed"
    ELSE IF r.kind = "direct" \/ ~deployOnChange THEN "built"
    ELSE IF ~parseDeployConfig THEN "exit"
    ELSE IF r.key \notin deployrc.cfg THEN "noConfig"
    ELSE "deploying"

\* The calls of rs whose build() is executing: the build the queue started,
\* or the one deployTexturePack started.
executing(rs) == {i \in Ids(rs) : rs[i].st \in {"running", "deploying"}}

\* build(): tempBuildDir, the name made of the version and Date.now().
tempBuildDir(version, t) == <<".temp", version, t>>

\* The Date.now() each executing build() has read: a build that begins in
\* this step reads the current millisecond, a build that goes on keeps what
\* it read, a build that has ended has removed its directory.
stamp(rs, next, sc, t) ==
    [i \in Ids(next) |->
        IF i \notin executing(next) THEN -1
        ELSE IF i \in Ids(rs) /\ rs[i].st = next[i].st THEN sc[i]
        ELSE t]

\* Time passes: Date.now() is a millisecond no executing build has read. The
\* milliseconds are named by the least number that is free.
later(rs, sc, t) ==
    LET used == {sc[i] : i \in executing(rs)}
    IN IF t \notin used
       THEN t
       ELSE CHOOSE n \in 0..Len(rs) :
                n \notin used /\ \A m \in 0..(n - 1) : m \in used

\* ----------------------------------------------------------- queue steps
\* A client calls scheduleBuild(version).
ScheduleBuild(version) ==
    /\ alive
    /\ Len(reqs) < MaxCalls
    /\ SetQueue(scheduleBuild(QueueState, version))
    /\ UNCHANGED <<pipeVars, atlasVars, outVars, toolVars>>
    /\ UNCHANGED <<output, deployed, isRunning, watchers, versions, watched, fsw,
                   stopPc, closeRem, alive, deployOnChange, deployrc, lastEvent>>
    /\ scratch' = stamp(reqs, reqs', scratch, now)
    /\ UNCHANGED <<now, clockRuns>>

\* A client calls executeBuild(version) directly.
ExecuteBuild(version) ==
    /\ alive
    /\ Len(reqs) < MaxCalls
    /\ LET q == QueueState
           call == [key |-> version, kind |-> "direct", st |-> "call", rem |-> 0,
                    busy |-> version \in building, early |-> FALSE, late |-> FALSE]
       IN SetQueue(executeBuild([q EXCEPT !.reqs = Append(reqs, call),
                                          !.burst[version] = FALSE],
                                Len(reqs) + 1))
    /\ UNCHANGED <<pipeVars, atlasVars, outVars, toolVars>>
    /\ UNCHANGED <<output, deployed, isRunning, watchers, versions, watched, fsw,
                   stopPc, closeRem, alive, deployOnChange, deployrc, lastEvent>>
    /\ scratch' = stamp(reqs, reqs', scratch, now)
    /\ UNCHANGED <<now, clockRuns>>

CancelPendingBuild(version) ==
    /\ alive
    /\ queues[version] # 0
    /\ SetQueue(cancelPendingBuild(QueueState, version))
    /\ UNCHANGED <<pipeVars, atlasVars, outVars, toolVars>>
    /\ UNCHANGED <<output, deployed, isRunning, watchers, versions, watched, fsw,
                   stopPc, closeRem, alive, deployOnChange, deployrc, lastEvent>>
    /\ scratch' = stamp(reqs, reqs', scratch, now)
    /\ UNCHANGED <<now, clockRuns>>

CancelAllPending ==
    /\ alive
    /\ \E k \in Keys : queues[k] # 0
    /\ SetQueue(cancelAllPending(QueueState))
    /\ UNCHANGED <<pipeVars, atlasVars, outVars, toolVars>>
    /\ UNCHANGED <<output, deployed, isRunning, watchers, versions, watched, fsw,
                   stopPc, closeRem, alive, deployOnChange, deployrc, lastEvent>>
    /\ scratch' = stamp(reqs, reqs', scratch, now)
    /\ UNCHANGED <<now, clockRuns>>

\* The debounce timer of call i fires.
TimerFire(i) ==
    /\ alive
    /\ reqs[i].st = "timer"
    /\ reqs[i].rem = 0
    /\ LET q == timerCallback(QueueState, i)
       IN SetQueue([q EXCEPT !.reqs[i].late = stopPc = "returned"])
    /\ UNCHANGED <<pipeVars, atlasVars, outVars, toolVars>>
    /\ UNCHANGED <<output, deployed, isRunning, watchers, versions, watched, fsw,
                   stopPc, closeRem, alive, deployOnChange, deployrc, lastEvent>>
    /\ scratch' = stamp(reqs, reqs', scratch, now)
    /\ UNCHANGED <<now, clockRuns>>

\* The build awaited by executeBuild ends; the finally block runs and the
\* promise of the call settles.
BuildFinish(i, ok) ==
    /\ alive
    /\ reqs[i].st = "running"
    /\ ok => validateVersion(reqs[i].key)
    /\ LET st == afterBuild(reqs[i], ok) IN
       /\ reqs' = [reqs EXCEPT ![i].st = st,
                               ![i].late = st = "deploying" /\ stopPc = "returned"]
       /\ alive' = (st # "exit")
    /\ building' = finallyBlock(building, reqs[i].key, ok)
    /\ output' = IF ok THEN [output EXCEPT ![reqs[i].key] = "queue"] ELSE output
    /\ UNCHANGED <<pipeVars, atlasVars, outVars, toolVars>>
    /\ UNCHANGED <<queues, sinceSched, burst, deployed, isRunning, watchers,
                   versions, watched, fsw, stopPc, closeRem, deployOnChange,
                   deployrc, lastEvent>>
    /\ scratch' = stamp(reqs, reqs', scratch, now)
    /\ UNCHANGED <<now, clockRuns>>

\* The build started by deployTexturePack ends; on success the artifact at
\* the path it returned is copied to the target.
DeployFinish(i, ok) ==
    /\ alive
    /\ reqs[i].st = "deploying"
    /\ reqs' = [reqs EXCEPT ![i].st = IF ok THEN "deployed" ELSE "deployFailed"]
    /\ output' = IF ok THEN [output EXCEPT ![reqs[i].key] = "deploy"] ELSE output
    /\ deployed' = IF ok THEN [deployed EXCEPT ![reqs[i].key] = output'[reqs[i].key]]
                   ELSE deployed
    /\ UNCHANGED <<pipeVars, atlasVars, outVars, toolVars>>
    /\ UNCHANGED <<queues, building, sinceSched, burst, isRunning, watchers,
                   versions, watched, fsw, stopPc, closeRem, alive, deployOnChange,
                   deployrc, lastEvent>>
    /\ scratch' = stamp(reqs, reqs', scratch, now)
    /\ UNCHANGED <<now, clockRuns>>

\* One tick of time: every live countdown and every age advances.
Tick ==
    /\ alive
    /\ \/ \E i \in Ids(reqs) : reqs[i].st = "timer" /\ reqs[i].rem > 0
       \/ \E k \in Keys : sinceSched[k] < DebounceTicks
       \/ closeRem > 0
    /\ reqs' = [i \in Ids(reqs) |->
                  IF reqs[i].st = "timer" /\ reqs[i].rem > 0
                  THEN [reqs[i] EXCEPT !.rem = @ - 1]
                  ELSE reqs[i]]
    /\ sinceSched' = [k \in Keys |->
                        IF sinceSched[k] < DebounceTicks
                        THEN sinceSched[k] + 1 ELSE sinceSched[k]]
    /\ closeRem' = IF closeRem > 0 THEN closeRem - 1 ELSE closeRem
    /\ UNCHANGED <<pipeVars, atlasVars, outVars, toolVars>>
    /\ UNCHANGED <<queues, building, burst, output, deployed, isRunning, watchers,
                   versions, watched, fsw, stopPc, alive, deployOnChange, deployrc,
                   lastEvent>>
    /\ scratch' = stamp(reqs, reqs', scratch, now)
    /\ now' = IF clockRuns THEN later(reqs', scratch', now) ELSE now
    /\ UNCHANGED clockRuns

\* ------------------------------------------------ a BuildQueue on its own
\* No watcher, an empty queue, no deploy configuration.
SessionIdle ==
    /\ reqs = <<>>
    /\ queues = [k \in Keys |-> 0]
    /\ building = {}
    /\ sinceSched = [k \in Keys |-> DebounceTicks]
    /\ burst = [k \in Keys |-> TRUE]
    /\ output = [k \in Keys |-> "none"]
    /\ deployed = [k \in Keys |-> "none"]
    /\ isRunning = FALSE
    /\ watchers = 0
    /\ versions = <<>>
    /\ watched = {}
    /\ fsw = "none"
    /\ stopPc = "idle"
    /\ closeRem = -1
    /\ alive = TRUE
    /\ deployOnChange = FALSE
    /\ deployrc = [exists |-> FALSE, cfg |-> {}]
    /\ lastEvent = [seen |-> FALSE, path |-> <<>>, calls |-> <<>>]
    /\ now = 0
    /\ scratch = <<>>
    /\ clockRuns = FALSE

QueueInit == SessionIdle /\ PipeIdle /\ AtlasIdle /\ OutIdle /\ ToolsIdle

QueueNext ==
    \/ \E version \in QueueKeys : ScheduleBuild(version)
    \/ \E version \in QueueKeys : ExecuteBuild(version)
    \/ \E version \in QueueKeys : CancelPendingBuild(version)
    \/ CancelAllPending
    \/ \E i \in Ids(reqs) : TimerFire(i)
    \/ \E i \in Ids(reqs), ok \in BOOLEAN : BuildFinish(i, ok)
    \/ Tick

QueueSpec == QueueInit /\ [][QueueNext]_vars

\* --------------------------------------------------------- TextureWatcher
\* config.watch_all_versions as parseConfig defaults it.
watch_all_versions == FALSE

\* A path is the sequence of its components below the project root, the
\* directory that holds versions/.
SharedPath == <<"versions", "shared", "a.png">>
ProfilePath(v) == <<"versions", v, "a.png">>

\* The paths chokidar reports: those below a watched directory.
WatchedPaths == {SharedPath} \cup {ProfilePath(v) : v \in watched}

\* Any path a change event can carry.
AllPaths == {SharedPath} \cup {ProfilePath(v) : v \in VersionSet}
            \cup {<<"versions", "stray.png">>, <<"versions", "zz", "a.png">>,
                  <<"src", "a.png">>, <<"versions">>, <<>>}

\* path.relative(<root>/versions, filePath).split(path.sep)
relativeParts(filePath) ==
    IF Len(filePath) >= 1 /\ filePath[1] = "versions"
    THEN IF Len(filePath) = 1 THEN <<"">> ELSE Tail(filePath)
    ELSE <<"..">> \o filePath

\* An absent version is written "", which the code's test of event.version
\* treats like undefined.
parseVersionFromPath(filePath) ==
    LET parts == relativeParts(filePath) IN
    IF Len(parts) = 0 \/ parts[1] = ".."
    THEN [version |-> "", isShared |-> FALSE]
    ELSE IF parts[1] = "shared"
    THEN [version |-> "", isShared |-> TRUE]
    ELSE [version |-> parts[1], isShared |-> FALSE]

\* Mutant of getVersionsToRebuild: a shared change rebuilds the first version only.
getVersionsToRebuild_first(event) ==
    IF event.isShared THEN SubSeq(versions, 1, 1)
    ELSE IF event.version # "" THEN <<event.version>>
    ELSE <<>>

getVersionsToRebuild(event) ==
    IF event.isShared THEN versions
    ELSE IF event.version # "" THEN <<event.version>>
    ELSE <<>>

\* versions.map(version => this.buildAndDeployVersion(version)): each call runs
\* to its await of scheduleBuild before the next one starts.
RECURSIVE scheduleAll(_, _)
scheduleAll(q, vs) ==
    IF vs = <<>> THEN q
    ELSE scheduleAll(scheduleBuild(q, Head(vs)), Tail(vs))

resolveVersionsToWatch(targetVersion) ==
    IF targetVersion = "all" THEN versions'
    ELSE IF targetVersion # "" /\ targetVersion \in VersionSet THEN <<targetVersion>>
    ELSE IF watch_all_versions THEN versions'
    ELSE <<versions'[1]>>

\* Mutant of closeRace: stop() awaits close() alone.
closeRace_noTimeout(closeSettled, timedOut) == closeSettled

\* Promise.race of watcher.close() and the timeout of stop(): settled once
\* either has settled.
closeRace(closeSettled, timedOut) == closeSettled \/ timedOut

\* The chokidar handler of a change, add or unlink event at filePath.
HandleFileChange(filePath) ==
    /\ alive
    /\ fsw = "open"
    /\ LET parsed == parseVersionFromPath(filePath)
           vs == getVersionsToRebuild([path |-> filePath,
                                       version |-> parsed.version,
                                       isShared |-> parsed.isShared])
           q == scheduleAll(QueueState, vs)
       IN /\ Len(reqs) + Len(vs) <= MaxReq
          /\ SetQueue(q)
          /\ lastEvent' = [seen |-> TRUE, path |-> filePath,
                           calls |-> [n \in 1..(Len(q.reqs) - Len(reqs)) |->
                                         q.reqs[Len(reqs) + n].key]]
    /\ UNCHANGED <<pipeVars, atlasVars, outVars, toolVars>>
    /\ UNCHANGED <<output, deployed, isRunning, watchers, versions, watched, fsw,
                   stopPc, closeRem, alive, deployOnChange, deployrc>>
    /\ scratch' = stamp(reqs, reqs', scratch, now)
    /\ UNCHANGED <<now, clockRuns>>

\* Mutant of alreadyRunning: start() does not look at isRunning.
alreadyRunning_never(running) == FALSE

\* The test of start() that makes it return at line 196.
alreadyRunning(running) == running

\* start(targetVersion): it has no await.  A start() while running reads
\* the version directories again, returns at line 196 and changes nothing
\* else.
Start(targetVersion) ==
    /\ alive
    /\ versions' = AvailableVersions
    /\ Len(versions') > 0
    /\ IF alreadyRunning(isRunning)
       THEN UNCHANGED <<watched, fsw, watchers, isRunning, stopPc>>
       ELSE /\ LET versionsToWatch == resolveVersionsToWatch(targetVersion)
               IN watched' = {versionsToWatch[n] : n \in 1..Len(versionsToWatch)}
            /\ fsw' = "open"
            /\ watchers' = watchers + 1
            /\ isRunning' = TRUE
            /\ stopPc' = "idle"
    /\ UNCHANGED <<pipeVars, atlasVars, outVars, toolVars>>
    /\ UNCHANGED <<reqs, queues, building, sinceSched, burst, output, deployed,
                   closeRem, alive, deployOnChange, deployrc, lastEvent>>
    /\ scratch' = stamp(reqs, reqs', scratch, now)
    /\ UNCHANGED <<now, clockRuns>>

\* stop() down to its await: the pending timers are cancelled, close() is
\* called on the watcher (chokidar drops its listeners at that call) and the
\* timeout of the race is armed.
StopCall ==
    /\ alive
    /\ isRunning
    /\ stopPc # "closing"
    /\ SetQueue(cancelAllPending(QueueState))
    /\ fsw' = "closing"
    /\ closeRem' = CloseTimeoutTicks
    /\ stopPc' = "closing"
    /\ UNCHANGED <<pipeVars, atlasVars, outVars, toolVars>>
    /\ UNCHANGED <<output, deployed, isRunning, watchers, versions, watched, alive,
                   deployOnChange, deployrc, lastEvent>>
    /\ scratch' = stamp(reqs, reqs', scratch, now)
    /\ UNCHANGED <<now, clockRuns>>

\* stop() after its await.
StopReturn ==
    /\ watchers' = 0
    /\ isRunning' = FALSE
    /\ stopPc' = "returned"

\* The promise of watcher.close() settles.  The timeout stays armed in the
\* runtime; once the race has settled its rejection is observed by nothing,
\* so the countdown is dropped here.
CloseSettle ==
    /\ alive
    /\ fsw = "closing"
    /\ fsw' = "closed"
    /\ IF stopPc = "closing" /\ closeRace(TRUE, FALSE)
       THEN StopReturn /\ closeRem' = -1
       ELSE UNCHANGED <<watchers, isRunning, stopPc, closeRem>>
    /\ UNCHANGED <<pipeVars, atlasVars, outVars, toolVars>>
    /\ UNCHANGED <<reqs, queues, building, sinceSched, burst, output, deployed,
                   versions, watched, alive, deployOnChange, deployrc, lastEvent>>
    /\ scratch' = stamp(reqs, reqs', scratch, now)
    /\ UNCHANGED <<now, clockRuns>>

\* The timeout armed by stop() fires.
CloseTimeoutFire ==
    /\ alive
    /\ closeRem = 0
    /\ closeRem' = -1
    /\ IF stopPc = "closing" /\ closeRace(FALSE, TRUE)
       THEN StopReturn
       ELSE UNCHANGED <<watchers, isRunning, stopPc>>
    /\ UNCHANGED <<pipeVars, atlasVars, outVars, toolVars>>
    /\ UNCHANGED <<reqs, queues, building, sinceSched, burst, output, deployed,
                   versions, watched, fsw, alive, deployOnChange, deployrc,
                   lastEvent>>
    /\ scratch' = stamp(reqs, reqs', scratch, now)
    /\ UNCHANGED <<now, clockRuns>>

\* The .deployrc files of the model: none, or one with a line for v1 only.
DeployFiles == {[exists |-> FALSE, cfg |-> {}],
                [exists |-> TRUE, cfg |-> {"v1"}]}

WatchInit ==
    /\ reqs = <<>>
    /\ queues = [k \in Keys |-> 0]
    /\ building = {}
    /\ sinceSched = [k \in Keys |-> DebounceTicks]
    /\ burst = [k \in Keys |-> TRUE]
    /\ output = [k \in Keys |-> "none"]
    /\ deployed = [k \in Keys |-> "none"]
    /\ isRunning = FALSE
    /\ watchers = 0
    /\ versions = <<>>
    /\ watched = {}
    /\ fsw = "none"
    /\ stopPc = "idle"
    /\ closeRem = -1
    /\ alive = TRUE
    /\ deployOnChange \in BOOLEAN
    /\ deployrc \in DeployFiles
    /\ lastEvent = [seen |-> FALSE, path |-> <<>>, calls |-> <<>>]
    /\ now = 0
    /\ scratch = <<>>
    /\ PipeIdle
    /\ AtlasIdle
    /\ OutIdle
    /\ ToolsIdle

\* A session in which the milliseconds are not told apart: every
\* Date.now() reads the same.
Init == WatchInit /\ clockRuns = FALSE

Targets == {"all", ""}

WatchSteps ==
    \/ \E targetVersion \in Targets : Start(targetVersion)
    \/ StopCall
    \/ CloseSettle
    \/ CloseTimeoutFire
    \/ \E i \in Ids(reqs) : TimerFire(i)
    \/ \E i \in Ids(reqs), ok \in BOOLEAN : BuildFinish(i, ok)
    \/ \E i \in Ids(reqs), ok \in BOOLEAN : DeployFinish(i, ok)
    \/ Tick

\* The watch session: chokidar reports changes below the watched directories.
Next ==
    \/ \E filePath \in WatchedPaths : HandleFileChange(filePath)
    \/ WatchSteps

Spec == Init /\ [][Next]_vars

\* The change handler of a started watcher fed with any path, and the builds
\* and deploys that follow.
ScopeNext ==
    \/ \E filePath \in AllPaths : HandleFileChange(filePath)
    \/ \E targetVersion \in Targets : Start(targetVersion)
    \/ \E i \in Ids(reqs) : TimerFire(i)
    \/ \E i \in Ids(reqs), ok \in BOOLEAN : BuildFinish(i, ok)
    \/ \E i \in Ids(reqs), ok \in BOOLEAN : DeployFinish(i, ok)
    \/ Tick

ScopeSpec == Init /\ [][ScopeNext]_vars

\* Time passes and due timers fire.
FairSpec == Spec /\ WF_vars(Tick) /\ WF_vars(CloseTimeoutFire)

\* The event loop runs every timer that is due, and every build() and every
\* deploy that was started ends.
SettleSpec ==
    /\ Spec
    /\ WF_vars(Tick)
    /\ WF_vars(CloseTimeoutFire)
    /\ \A i \in 1..MaxReq :
           /\ WF_vars(i \in Ids(reqs) /\ TimerFire(i))
           /\ WF_vars(i \in Ids(reqs) /\ \E ok \in BOOLEAN : BuildFinish(i, ok))
           /\ WF_vars(i \in Ids(reqs) /\ \E ok \in BOOLEAN : DeployFinish(i, ok))

\* A millisecond passes with nothing else happening.
MsPasses ==
    /\ alive
    /\ clockRuns
    /\ now' = later(reqs, scratch, now)
    /\ now' # now
    /\ UNCHANGED <<queueVars, deployed, isRunning, watchers, versions, watched,
                   fsw, stopPc, closeRem, alive, deployOnChange, deployrc,
                   lastEvent, scratch, clockRuns>>
    /\ UNCHANGED <<pipeVars, atlasVars, outVars, toolVars>>

\* The watch session with the clock of the temporary directories' names.
StampNext ==
    \/ Next
    \/ MsPasses

\* A session followed millisecond by millisecond: a tick of the debounce
\* window is later than every millisecond before it.
StampInit == WatchInit /\ clockRuns = TRUE

StampSpec == StampInit /\ [][StampNext]_vars

\* ==================================================== the asset pipeline
\* (AssetPipeline, DefaultTransformerRegistry, build() of build.ts)

\* The profile directory that Beta173Transformer serves ('b1.7.3').
Beta173Version == AvailableVersions[1]

\* Beta173Transformer: its transform() catches whatever its steps throw and
\* its getRequiredAssetTypes() returns a constant list.
Beta173 == [version |-> Beta173Version, name |-> "Beta173Transformer"]

\* Any other implementation of the VersionTransformer interface.
OtherTransformer(version) == [version |-> version, name |-> "other"]

Transformers == {Beta173} \cup {OtherTransformer(v) : v \in VersionSet}

\* transformer.isApplicable(version); an implementation other than
\* Beta173Transformer answers to its own version.
isApplicable(transformer, version) ==
    IF transformer.name = Beta173.name
    THEN version = Beta173Version \/ version = Beta173Alias
    ELSE version = transformer.version

register_firstWins(reg, transformer) ==
    IF reg[transformer.version] = "none"
    THEN [reg EXCEPT ![transformer.version] = transformer.name]
    ELSE reg

register(reg, transformer) == [reg EXCEPT ![transformer.version] = transformer.name]

get(reg, version) == reg[version]

\* The failed result processVersion builds itself.
failedResult(err) == [success |-> FALSE, error |-> err,
                      processedFiles |-> <<>>, skippedFiles |-> <<>>]

emptyResult == [success |-> TRUE, error |-> "none",
                processedFiles |-> <<>>, skippedFiles |-> <<>>]

\* What transform() resolves with: success, or a failure it caught itself.
transformResult(outcome) ==
    IF outcome = "ok"
    THEN [success |-> TRUE, error |-> "none",
          processedFiles |-> <<"terrain.png">>, skippedFiles |-> <<>>]
    ELSE [success |-> FALSE, error |-> "transformFailed",
          processedFiles |-> <<>>, skippedFiles |-> <<"terrain.png">>]

\* The outcomes of transformer.transform(): Beta173Transformer never rejects.
TransformOutcomes(name) ==
    IF name = Beta173.name THEN {"ok", "failure"} ELSE {"ok", "failure", "throw"}

pvReturn_skipCopy(caller, r) ==
    /\ pipeResult' = r
    /\ pvOutcome' = "returned"
    /\ pipePc' = IF caller = "build"
                 THEN (IF r.success THEN "createZip" ELSE "catch")
                 ELSE "done"

\* processVersion returns r; build() goes on after its await and throws
\* when the result is a failure.
pvReturn(caller, r) ==
    /\ pipeResult' = r
    /\ pvOutcome' = "returned"
    /\ pipePc' = IF caller = "build"
                 THEN (IF r.success THEN "copyVersionFiles" ELSE "catch")
                 ELSE "done"

pvCatch_rethrow(err) ==
    /\ pipeFault' = err
    /\ pvOutcome' = "thrown"
    /\ pipePc' = IF pipeCaller = "build" THEN "catch" ELSE "done"
    /\ UNCHANGED pipeResult

\* The catch clause of processVersion.
pvCatch(err) ==
    /\ pipeFault' = err
    /\ pvReturn(pipeCaller, failedResult(err))

processVersion_noGuard(caller, reg, version) ==
    /\ pipePc' = "ensureOutputDir"
    /\ UNCHANGED <<pipeResult, pvOutcome>>

\* processVersion down to its first await.
processVersion(caller, reg, version) ==
    IF get(reg, version) = "none"
    THEN pvReturn(caller, failedResult("noTransformer"))
    ELSE /\ pipePc' = "ensureOutputDir"
         /\ UNCHANGED <<pipeResult, pvOutcome>>

\* pipeline.registerTransformer(transformer) on a pipeline that is not running.
RegisterTransformer(transformer) ==
    /\ pipePc = "idle"
    /\ Len(regCalls) < MaxRegister
    /\ registry' = register(registry, transformer)
    /\ regCalls' = Append(regCalls, transformer)
    /\ UNCHANGED <<pipePc, pipeCaller, pipeVersion, outputDirExists,
                   buildDirExists, discovery, pipeResult, pvOutcome,
                   buildOutcome, pipeFault, removeFailed>>
    /\ UNCHANGED outVars
    /\ UNCHANGED <<queueVars, watchVars, atlasVars, toolVars>>

\* A client calls pipeline.processVersion(version, outputDir).
ProcessVersion(version) ==
    /\ pipePc = "idle"
    /\ pipeCaller' = "direct"
    /\ pipeVersion' = version
    /\ processVersion("direct", registry, version)
    /\ UNCHANGED <<registry, regCalls, outputDirExists, buildDirExists, discovery,
                   buildOutcome, pipeFault, removeFailed>>
    /\ UNCHANGED outVars
    /\ UNCHANGED <<queueVars, watchVars, atlasVars, toolVars>>

\* build(version) down to its first await: a new pipeline with
\* Beta173Transformer registered processes the version into the temporary
\* directory.
Build(version) ==
    /\ pipePc = "idle"
    /\ pipeCaller' = "build"
    /\ pipeVersion' = version
    /\ IF ~validateVersion(version)
       THEN /\ pipePc' = "done"
            /\ buildOutcome' = "thrown"
            /\ UNCHANGED <<registry, regCalls, pipeResult, pvOutcome>>
       ELSE /\ registry' = register(EmptyRegistry, Beta173)
            /\ regCalls' = <<Beta173>>
            /\ processVersion("build", registry', version)
            /\ UNCHANGED buildOutcome
    /\ UNCHANGED <<outputDirExists, buildDirExists, discovery, pipeFault,
                   removeFailed>>
    /\ UNCHANGED outVars
    /\ UNCHANGED <<queueVars, watchVars, atlasVars, toolVars>>

\* fs.ensureDir(outputDir)
EnsureOutputDir(ok) ==
    /\ pipePc = "ensureOutputDir"
    /\ IF ok
       THEN /\ outputDirExists' = TRUE
            /\ pipePc' = "discover"
            /\ UNCHANGED <<pipeResult, pvOutcome, pipeFault>>
       ELSE /\ pvCatch("ensureOutputDir")
            /\ UNCHANGED outputDirExists
    /\ UNCHANGED <<pipeCaller, pipeVersion, registry, regCalls, buildDirExists, discovery,
                   buildOutcome, removeFailed>>
    /\ UNCHANGED outVars
    /\ UNCHANGED <<queueVars, watchVars, atlasVars, toolVars>>

\* discoverAllAssets and the return on an empty inventory.
DiscoverAllAssets(ok, found) ==
    /\ pipePc = "discover"
    /\ IF ~ok
       THEN /\ pvCatch("discovery")
            /\ UNCHANGED <<discovery, stepsDone>>
       ELSE /\ discovery' = IF found THEN "some" ELSE "empty"
            /\ stepsDone' = Append(stepsDone, "discovery")
            /\ UNCHANGED pipeFault
            /\ IF found
               THEN /\ pipePc' = "filter"
                    /\ UNCHANGED <<pipeResult, pvOutcome>>
               ELSE pvReturn(pipeCaller, emptyResult)
    /\ UNCHANGED <<pipeCaller, pipeVersion, registry, regCalls, outputDirExists,
                   buildDirExists, buildOutcome, removeFailed>>
    /\ UNCHANGED <<versionFiles, tempFiles, zipFiles>>
    /\ UNCHANGED <<queueVars, watchVars, atlasVars, toolVars>>

\* The filter by transformer.getRequiredAssetTypes().
FilterAssets(ok) ==
    /\ pipePc = "filter"
    /\ ok \/ get(registry, pipeVersion) # Beta173.name
    /\ IF ok
       THEN /\ pipePc' = "ensureBuildDir"
            /\ stepsDone' = Append(stepsDone, "filter")
            /\ UNCHANGED <<pipeResult, pvOutcome, pipeFault>>
       ELSE /\ pvCatch("filter")
            /\ UNCHANGED stepsDone
    /\ UNCHANGED <<pipeCaller, pipeVersion, registry, regCalls, outputDirExists,
                   buildDirExists, discovery, buildOutcome, removeFailed>>
    /\ UNCHANGED <<versionFiles, tempFiles, zipFiles>>
    /\ UNCHANGED <<queueVars, watchVars, atlasVars, toolVars>>

\* fs.ensureDir(context.buildDir)
EnsureBuildDir(ok) ==
    /\ pipePc = "ensureBuildDir"
    /\ IF ok
       THEN /\ buildDirExists' = TRUE
            /\ pipePc' = "transform"
            /\ UNCHANGED <<pipeResult, pvOutcome, pipeFault>>
       ELSE /\ pvCatch("ensureBuildDir")
            /\ UNCHANGED buildDirExists
    /\ UNCHANGED <<pipeCaller, pipeVersion, registry, regCalls, outputDirExists, discovery,
                   buildOutcome, removeFailed>>
    /\ UNCHANGED outVars
    /\ UNCHANGED <<queueVars, watchVars, atlasVars, toolVars>>

\* The output directory once the transformer has written its processed files.
written(files, processed) ==
    [p \in ProfilePaths |-> IF p \in Range(processed) THEN "pipeline" ELSE files[p]]

\* await transformer.transform(assetsToProcess, context)
Transform(outcome) ==
    /\ pipePc = "transform"
    /\ outcome \in TransformOutcomes(get(registry, pipeVersion))
    /\ IF outcome = "throw"
       THEN /\ pvCatch("transform")
            /\ UNCHANGED <<tempFiles, stepsDone>>
       ELSE /\ pipeResult' = transformResult(outcome)
            /\ tempFiles' = written(tempFiles, pipeResult'.processedFiles)
            /\ stepsDone' = Append(stepsDone, "transform")
            /\ pipePc' = "removeBuildDir"
            /\ UNCHANGED <<pvOutcome, pipeFault>>
    /\ UNCHANGED <<pipeCaller, pipeVersion, registry, regCalls, outputDirExists,
                   buildDirExists, discovery, buildOutcome, removeFailed>>
    /\ UNCHANGED <<versionFiles, zipFiles>>
    /\ UNCHANGED <<queueVars, watchVars, atlasVars, toolVars>>

\* fs.remove(context.buildDir) and the return of the transformer's result.
RemoveBuildDir(ok) ==
    /\ pipePc = "removeBuildDir"
    /\ IF ok
       THEN /\ buildDirExists' = FALSE
            /\ pvReturn(pipeCaller, pipeResult)
            /\ UNCHANGED <<pipeFault, removeFailed>>
       ELSE /\ removeFailed' = TRUE
            /\ pvCatch("removeBuildDir")
            /\ UNCHANGED buildDirExists
    /\ UNCHANGED <<pipeCaller, pipeVersion, registry, regCalls, outputDirExists, discovery,
                   buildOutcome>>
    /\ UNCHANGED outVars
    /\ UNCHANGED <<queueVars, watchVars, atlasVars, toolVars>>

\* build(): the filter handed to fsExtra.copy: a path relative to the
\* version directory passes when no processed file has that path.
copyFilter_all(processed, relative) == TRUE

copyFilter(processed, relative) ==
    ~(\E i \in 1..Len(processed) : processed[i] = relative)

\* fsExtra.copy(versionDir, tempBuildDir, {filter}): each file the copy
\* reaches and the filter lets pass replaces what the directory held there.
copyVersionDir(files, reached, processed) ==
    [p \in ProfilePaths |->
        IF p \in reached /\ copyFilter(processed, p) THEN "profile" ELSE files[p]]

\* build(): the copy of the version directory over the pipeline's output; a
\* copy that fails has reached some of the files.
CopyVersionFiles(ok) ==
    /\ pipePc = "copyVersionFiles"
    /\ IF ok
       THEN /\ tempFiles' = copyVersionDir(tempFiles, versionFiles,
                                           pipeResult.processedFiles)
            /\ stepsDone' = Append(stepsDone, "copy")
            /\ pipePc' = "createZip"
       ELSE /\ \E reached \in SUBSET versionFiles :
                 /\ reached # versionFiles \/ versionFiles = {}
                 /\ tempFiles' = copyVersionDir(tempFiles, reached,
                                                pipeResult.processedFiles)
            /\ pipePc' = "catch"
            /\ UNCHANGED stepsDone
    /\ UNCHANGED <<pipeCaller, pipeVersion, registry, regCalls, outputDirExists,
                   buildDirExists, discovery, pipeResult, pvOutcome,
                   buildOutcome, pipeFault, removeFailed>>
    /\ UNCHANGED <<versionFiles, zipFiles>>
    /\ UNCHANGED <<queueVars, watchVars, atlasVars, toolVars>>

\* archive.directory(sourceDir, false) and the appended INFO.txt.
archive(files) ==
    [p \in ArchivePaths |-> IF p = "INFO.txt" THEN "info" ELSE files[p]]

\* build(): createZipFile
CreateZipFile(ok) ==
    /\ pipePc = "createZip"
    /\ IF ok
       THEN /\ zipFiles' = archive(tempFiles)
            /\ stepsDone' = Append(stepsDone, "package")
            /\ pipePc' = "removeTemp"
       ELSE /\ pipePc' = "catch"
            /\ UNCHANGED <<zipFiles, stepsDone>>
    /\ UNCHANGED <<pipeCaller, pipeVersion, registry, regCalls, outputDirExists,
                   buildDirExists, discovery, pipeResult, pvOutcome,
                   buildOutcome, pipeFault, removeFailed>>
    /\ UNCHANGED <<versionFiles, tempFiles>>
    /\ UNCHANGED <<queueVars, watchVars, atlasVars, toolVars>>

\* build(): the removal of the temporary directory and the return.
RemoveTemp(ok) ==
    /\ pipePc = "removeTemp"
    /\ IF ok
       THEN /\ outputDirExists' = FALSE
            /\ buildDirExists' = FALSE
            /\ tempFiles' = NoFiles
            /\ stepsDone' = Append(stepsDone, "removeTemp")
            /\ buildOutcome' = "returned"
            /\ pipePc' = "done"
            /\ UNCHANGED removeFailed
       ELSE /\ removeFailed' = TRUE
            /\ pipePc' = "catch"
            /\ UNCHANGED <<outputDirExists, buildDirExists, buildOutcome,
                           tempFiles, stepsDone>>
    /\ UNCHANGED <<pipeCaller, pipeVersion, registry, regCalls, discovery, pipeResult,
                   pvOutcome, pipeFault>>
    /\ UNCHANGED <<versionFiles, zipFiles>>
    /\ UNCHANGED <<queueVars, watchVars, atlasVars, toolVars>>

\* build(): the inner catch removes the temporary directory if it exists and
\* rethrows; the outer catch wraps the error.
CatchCleanup(ok) ==
    /\ pipePc = "catch"
    /\ ok \/ outputDirExists
    /\ IF outputDirExists
       THEN IF ok
            THEN /\ outputDirExists' = FALSE
                 /\ buildDirExists' = FALSE
                 /\ tempFiles' = NoFiles
                 /\ stepsDone' = Append(stepsDone, "removeTemp")
                 /\ UNCHANGED removeFailed
            ELSE /\ removeFailed' = TRUE
                 /\ UNCHANGED <<outputDirExists, buildDirExists, tempFiles,
                                stepsDone>>
       ELSE UNCHANGED <<outputDirExists, buildDirExists, removeFailed,
                        tempFiles, stepsDone>>
    /\ buildOutcome' = "thrown"
    /\ pipePc' = "done"
    /\ UNCHANGED <<pipeCaller, pipeVersion, registry, regCalls, discovery, pipeResult,
                   pvOutcome, pipeFault>>
    /\ UNCHANGED <<versionFiles, zipFiles>>
    /\ UNCHANGED <<queueVars, watchVars, atlasVars, toolVars>>

\* A pipeline after construction, the profile directory holding any of the
\* files of the model.
PipeInit ==
    /\ SessionIdle
    /\ PipeIdle
    /\ AtlasIdle
    /\ versionFiles \in SUBSET ProfilePaths
    /\ OutState
    /\ ToolsIdle

PipeNext ==
    \/ \E transformer \in Transformers : RegisterTransformer(transformer)
    \/ \E version \in PipeIds : ProcessVersion(version)
    \/ \E version \in PipeIds : Build(version)
    \/ \E ok \in BOOLEAN : EnsureOutputDir(ok)
    \/ \E ok \in BOOLEAN, found \in BOOLEAN : DiscoverAllAssets(ok, found)
    \/ \E ok \in BOOLEAN : FilterAssets(ok)
    \/ \E ok \in BOOLEAN : EnsureBuildDir(ok)
    \/ \E outcome \in {"ok", "failure", "throw"} : Transform(outcome)
    \/ \E ok \in BOOLEAN : RemoveBuildDir(ok)
    \/ \E ok \in BOOLEAN : CopyVersionFiles(ok)
    \/ \E ok \in BOOLEAN : CreateZipFile(ok)
    \/ \E ok \in BOOLEAN : RemoveTemp(ok)
    \/ \E ok \in BOOLEAN : CatchCleanup(ok)

\* One call of processVersion or build on a pipeline.
PipeSpec == PipeInit /\ [][PipeNext]_vars

\* ===================================================== the build command
\* (setupBuildCommand of the cli, and main / buildAll of build.ts)

\* getAvailableVersions(): the profile directories, sorted.
getAvailableVersions == AvailableVersions

\* The two programs that build on command.
Entries == {"cli", "script"}

\* The version argument: 'all', a profile, a name that is no profile, none.
Arguments == {"all", ""} \cup PipeIds

\* version || 'b1.7.3'
targetOf(arg) == IF arg = "" THEN Beta173Version ELSE arg

\* process.exit(code), and the exit of a process that has nothing left to do.
exit(code) ==
    /\ exited' = TRUE
    /\ exitCode' = code
    /\ cmdPc' = "exited"

\* The command is given: everything down to the first call of build().
\* build.ts validates the argument first; both read the profile directories
\* for 'all' and end with code 1 when there is none.
BuildCommand(entry, arg) ==
    /\ cmdPc = "idle"
    /\ pipePc = "idle"
    /\ cmdEntry' = entry
    /\ cmdArg' = targetOf(arg)
    /\ IF targetOf(arg) = "all"
       THEN IF Len(getAvailableVersions) = 0
            THEN /\ exit(1)
                 /\ UNCHANGED cmdVersions
            ELSE /\ cmdVersions' = getAvailableVersions
                 /\ cmdPc' = "call"
                 /\ UNCHANGED <<exited, exitCode>>
       ELSE IF entry = "script" /\ ~validateVersion(targetOf(arg))
            THEN /\ exit(1)
                 /\ UNCHANGED cmdVersions
            ELSE /\ cmdVersions' = <<targetOf(arg)>>
                 /\ cmdPc' = "call"
                 /\ UNCHANGED <<exited, exitCode>>
    /\ UNCHANGED <<batchIdx, successCount, failureCount, attempts>>
    /\ UNCHANGED <<queueVars, watchVars, pipeVars, atlasVars, outVars, discVars,
                   depVars>>

\* await build(v): the call. Build leaves the command where it is.
CallBuild ==
    /\ cmdPc = "call"
    /\ Build(cmdVersions[batchIdx])

\* The locals of a call of build() are gone when it has settled; the next
\* call makes its own pipeline, temporary directory and archive.
BuildSettled ==
    /\ pipePc' = "idle"
    /\ pipeCaller' = "none"
    /\ pipeVersion' = "none"
    /\ registry' = EmptyRegistry
    /\ regCalls' = <<>>
    /\ outputDirExists' = FALSE
    /\ buildDirExists' = FALSE
    /\ discovery' = "notRun"
    /\ pipeResult' = NoResult
    /\ pvOutcome' = "none"
    /\ buildOutcome' = "none"
    /\ pipeFault' = "none"
    /\ removeFailed' = FALSE
    /\ tempFiles' = NoFiles
    /\ zipFiles' = NoArchive
    /\ stepsDone' = <<>>
    /\ UNCHANGED versionFiles

\* The end of the 'all' loop: the tally, and for buildAll the exit with
\* code 1 when a version failed. The cli's command has no failure count and
\* ends as a command that succeeded.
tally(entry, failures) ==
    IF entry = "script" /\ failures > 0 THEN exit(1) ELSE exit(0)

buildSettles_stopOnFailure(entry, all, last, built, failures) ==
    IF all
    THEN IF ~built
         THEN exit(1)
         ELSE IF last
              THEN tally(entry, failures)
              ELSE /\ cmdPc' = "call"
                   /\ UNCHANGED <<exited, exitCode>>
    ELSE IF built THEN exit(0) ELSE exit(1)

\* What follows await build(v). In the loop of 'all' the catch clause keeps
\* the loop going; a single build that threw reaches the outer catch, which
\* exits with code 1.
buildSettles(entry, all, last, built, failures) ==
    IF all
    THEN IF last
         THEN tally(entry, failures)
         ELSE /\ cmdPc' = "call"
              /\ UNCHANGED <<exited, exitCode>>
    ELSE IF built THEN exit(0) ELSE exit(1)

\* build(v) has settled: the counts, the next version or the end.
AwaitBuild ==
    /\ cmdPc = "call"
    /\ pipePc = "done"
    /\ LET v == cmdVersions[batchIdx]
           built == buildOutcome = "returned"
       IN /\ attempts' = Append(attempts, [version |-> v, built |-> built])
          /\ successCount' = IF cmdArg = "all" /\ built
                             THEN successCount + 1
                             ELSE successCount
          /\ failureCount' = IF cmdEntry = "script" /\ cmdArg = "all" /\ ~built
                             THEN failureCount + 1
                             ELSE failureCount
          /\ batchIdx' = batchIdx + 1
          /\ buildSettles(cmdEntry, cmdArg = "all", batchIdx = Len(cmdVersions),
                        built, failureCount')
    /\ BuildSettled
    /\ UNCHANGED <<cmdEntry, cmdArg, cmdVersions>>
    /\ UNCHANGED <<queueVars, watchVars, atlasVars, discVars, depVars>>

\* A profile directory with any of the files of the model, no command given.
CmdInit ==
    /\ SessionIdle
    /\ PipeIdle
    /\ AtlasIdle
    /\ versionFiles \in SUBSET ProfilePaths
    /\ OutState
    /\ ToolsIdle

CmdNext ==
    \/ \E entry \in Entries, arg \in Arguments : BuildCommand(entry, arg)
    \/ CallBuild
    \/ \E ok \in BOOLEAN : EnsureOutputDir(ok)
    \/ \E ok \in BOOLEAN, found \in BOOLEAN : DiscoverAllAssets(ok, found)
    \/ \E ok \in BOOLEAN : FilterAssets(ok)
    \/ \E ok \in BOOLEAN : EnsureBuildDir(ok)
    \/ \E outcome \in {"ok", "failure", "throw"} : Transform(outcome)
    \/ \E ok \in BOOLEAN : RemoveBuildDir(ok)
    \/ \E ok \in BOOLEAN : CopyVersionFiles(ok)
    \/ \E ok \in BOOLEAN : CreateZipFile(ok)
    \/ \E ok \in BOOLEAN : RemoveTemp(ok)
    \/ \E ok \in BOOLEAN : CatchCleanup(ok)
    \/ AwaitBuild

\* One build command from its start to the exit of its process.
CmdSpec == CmdInit /\ [][CmdNext]_vars

\* ====================================================== asset discovery
\* (AssetDiscovery, and the loose-file loop of AssetPipeline.discoverAllAssets)

\* A relative path is the sequence of its characters.
SamplePaths ==
    <<<<"p", "a", "c", "k", ".", "t", "x", "t">>,
      <<"b", "l", "o", "c", "k", "s", "/", "p", "a", "c", "k", ".", "t", "x", "t">>,
      <<"b", "l", "o", "c", "k", "s", "/", "c", "o", "n", "f", "i", "g", ".", "j", "s", "o", "n">>,
      <<"g", "u", "i", "/", "m", "y", "s", "e", "t", "t", "i", "n", "g", "s", ".", "p", "n", "g">>,
      <<"b", "l", "o", "c", "k", "s", "/", "d", "i", "r", "t", ".", "p", "n", "g">>,
      <<"B", "l", "o", "c", "k", "s", "/", "D", "i", "r", "t", ".", "P", "N", "G">>,
      <<"t", "e", "r", "r", "a", "i", "n", "/", "a", ".", "p", "n", "g">>,
      <<"i", "t", "e", "m", "s", "/", "a", ".", "p", "n", "g">>,
      <<"g", "u", "i", "/", "a", ".", "p", "n", "g">>,
      <<"e", "n", "v", "i", "r", "o", "n", "m", "e", "n", "t", "/", "a", ".", "p", "n", "g">>,
      <<"p", "a", "r", "t", "i", "c", "l", "e", "/", "a", ".", "p", "n", "g">>,
      <<"m", "i", "s", "c", "/", "a", ".", "p", "n", "g">>,
      <<"b", "l", "o", "c", "k", "s", "/", "r", "e", "a", "d", "m", "e", ".", "m", "d">>,
      <<"c", "o", "n", "f", "i", "g", ".", "x", "m", "l">>,
      <<"i", "c", "o", "n", ".", "p", "n", "g">>,
      <<"n", "o", "t", "e", "s", ".", "t", "x", "t">>,
      <<"p", "a", "c", "k", ".", "p", "n", "g">>,
      <<"v", "1", ".", "2", "/", "r", "e", "a", "d", "m", "e">>>>

UpperCase == <<"A", "B", "C", "D", "E", "F", "G", "H", "I", "J", "K", "L", "M",
               "N", "O", "P", "Q", "R", "S", "T", "U", "V", "W", "X", "Y", "Z">>

LowerCase == <<"a", "b", "c", "d", "e", "f", "g", "h", "i", "j", "k", "l", "m",
               "n", "o", "p", "q", "r", "s", "t", "u", "v", "w", "x", "y", "z">>

\* String.prototype.toLowerCase
toLowerCase(str) ==
    [i \in 1..Len(str) |->
        IF \E n \in 1..Len(UpperCase) : UpperCase[n] = str[i]
        THEN LowerCase[CHOOSE n \in 1..Len(UpperCase) : UpperCase[n] = str[i]]
        ELSE str[i]]

\* String.prototype.includes
includes(str, search) ==
    \E i \in 0..(Len(str) - Len(search)) :
        SubSeq(str, i + 1, i + Len(search)) = search

\* The index of the last occurrence of character c in str, 0 when there is none.
lastIndexOf(str, c) ==
    IF \E i \in 1..Len(str) : str[i] = c
    THEN CHOOSE i \in 1..Len(str) :
             str[i] = c /\ \A j \in (i + 1)..Len(str) : str[j] # c
    ELSE 0

\* path.basename, path.dirname and path.extname on a relative path.
basename(p) == SubSeq(p, lastIndexOf(p, "/") + 1, Len(p))

dirname(p) ==
    IF lastIndexOf(p, "/") = 0 THEN <<".">> ELSE SubSeq(p, 1, lastIndexOf(p, "/") - 1)

extname(p) ==
    LET base == basename(p)
        dot == lastIndexOf(base, ".")
    IN IF dot <= 1 THEN <<>> ELSE SubSeq(base, dot, Len(base))

ImageExtensions ==
    {<<".", "p", "n", "g">>,
     <<".", "j", "p", "g">>,
     <<".", "j", "p", "e", "g">>,
     <<".", "g", "i", "f">>,
     <<".", "b", "m", "p">>,
     <<".", "t", "i", "f", "f">>}

SupportedExtensions ==
    ImageExtensions \cup
    {<<".", "t", "x", "t">>,
     <<".", "j", "s", "o", "n">>,
     <<".", "m", "c", "m", "e", "t", "a">>}

\* AssetDiscovery.determineAssetType
determineAssetType(relativePath) ==
    LET ext == toLowerCase(extname(relativePath))
        dir == toLowerCase(dirname(relativePath))
        filename == toLowerCase(basename(relativePath))
    IN IF ext \notin SupportedExtensions THEN "unknown"
       ELSE IF filename = <<"p", "a", "c", "k", ".", "t", "x", "t">>
            THEN "metadata_pack"
       ELSE IF \/ includes(filename, <<"c", "o", "n", "f", "i", "g">>)
               \/ includes(filename, <<"s", "e", "t", "t", "i", "n", "g", "s">>)
            THEN "metadata_config"
       ELSE IF includes(dir, <<"b", "l", "o", "c", "k", "s">>) THEN "texture_blocks"
       ELSE IF includes(dir, <<"t", "e", "r", "r", "a", "i", "n">>) THEN "texture_terrain"
       ELSE IF includes(dir, <<"i", "t", "e", "m", "s">>) THEN "texture_items"
       ELSE IF includes(dir, <<"g", "u", "i">>) THEN "texture_gui"
       ELSE IF includes(dir, <<"e", "n", "v", "i", "r", "o", "n", "m", "e", "n", "t">>)
            THEN "texture_environment"
       ELSE IF \/ includes(dir, <<"p", "a", "r", "t", "i", "c", "l", "e", "s">>)
               \/ includes(dir, <<"p", "a", "r", "t", "i", "c", "l", "e">>)
            THEN "texture_particles"
       ELSE IF includes(dir, <<"m", "i", "s", "c">>) THEN "texture_misc"
       ELSE IF ext \in ImageExtensions THEN "texture_blocks"
       ELSE "unknown"

\* AssetPipeline.determineAssetType, the classifier of the loose files.
pipelineDetermineAssetType(relativePath) ==
    LET filename == toLowerCase(basename(relativePath))
    IN IF filename = <<"p", "a", "c", "k", ".", "t", "x", "t">>
       THEN "metadata_pack"
       ELSE IF filename = <<"p", "a", "c", "k", ".", "p", "n", "g">>
            THEN "texture_gui"
       ELSE "unknown"

createAssetFile_noCatch(relativePath, tree) ==
    <<[relativePath |-> relativePath, type |-> determineAssetType(relativePath)]>>

\* AssetDiscovery.createAssetFile: the record of a file, or nothing (null)
\* when its stat fails.
createAssetFile(relativePath, tree) ==
    IF relativePath \in tree.unreadable
    THEN <<>>
    ELSE <<[relativePath |-> relativePath, type |-> determineAssetType(relativePath)]>>

\* discoverAssets returns.
discoverReturn(as, total) ==
    /\ discResult' = [returned |-> TRUE, assets |-> as, totalFiles |-> total,
                      discoveredTypes |-> {as[i].type : i \in 1..Len(as)}]
    /\ discPc' = "done"

\* discoverAssets down to its loop: a source directory that does not exist
\* gives the empty inventory.
DiscoverAssets ==
    /\ discPc = "idle"
    /\ discWho' = "discovery"
    /\ IF ~sourceTree.exists \/ sourceTree.files = <<>>
       THEN discoverReturn(<<>>, 0)
       ELSE /\ discPc' = "files"
            /\ UNCHANGED discResult
    /\ UNCHANGED <<sourceTree, fileIdx, discAssets>>
    /\ UNCHANGED <<queueVars, watchVars, pipeVars, atlasVars, outVars, cmdVars,
                   depVars>>

\* One turn of the loop of discoverAssets, and the return after the last.
CreateAssetFile ==
    /\ discPc = "files"
    /\ discWho = "discovery"
    /\ discAssets' = discAssets \o createAssetFile(sourceTree.files[fileIdx], sourceTree)
    /\ fileIdx' = fileIdx + 1
    /\ IF fileIdx = Len(sourceTree.files)
       THEN discoverReturn(discAssets', Len(sourceTree.files))
       ELSE UNCHANGED <<discPc, discResult>>
    /\ UNCHANGED <<sourceTree, discWho>>
    /\ UNCHANGED <<queueVars, watchVars, pipeVars, atlasVars, outVars, cmdVars,
                   depVars>>

\* The return of the loose-file loop: {assets}.
looseReturn(as) ==
    /\ discResult' = [returned |-> TRUE, assets |-> as, totalFiles |-> 0,
                      discoveredTypes |-> {}]
    /\ discPc' = "done"

\* discoverAllAssets, its second part: the files of versions/shared outside
\* assets/.
DiscoverLooseFiles ==
    /\ discPc = "idle"
    /\ discWho' = "pipeline"
    /\ IF ~sourceTree.exists \/ sourceTree.files = <<>>
       THEN looseReturn(<<>>)
       ELSE /\ discPc' = "files"
            /\ UNCHANGED discResult
    /\ UNCHANGED <<sourceTree, fileIdx, discAssets>>
    /\ UNCHANGED <<queueVars, watchVars, pipeVars, atlasVars, outVars, cmdVars,
                   depVars>>

\* One turn of the loose-file loop: a file whose stat fails is left out.
LooseFile ==
    /\ discPc = "files"
    /\ discWho = "pipeline"
    /\ LET file == sourceTree.files[fileIdx]
       IN discAssets' =
              IF file \in sourceTree.unreadable
              THEN discAssets
              ELSE Append(discAssets,
                          [relativePath |-> file,
                           type |-> pipelineDetermineAssetType(file)])
    /\ fileIdx' = fileIdx + 1
    /\ IF fileIdx = Len(sourceTree.files)
       THEN looseReturn(discAssets')
       ELSE UNCHANGED <<discPc, discResult>>
    /\ UNCHANGED <<sourceTree, discWho>>
    /\ UNCHANGED <<queueVars, watchVars, pipeVars, atlasVars, outVars, cmdVars,
                   depVars>>

\* The sets of at most k sample paths, each path known by its place in
\* SamplePaths.
RECURSIVE PathSets(_)
PathSets(k) ==
    IF k = 0
    THEN {{}}
    ELSE PathSets(k - 1) \cup
         {S \cup {n} : S \in PathSets(k - 1), n \in 1..Len(SamplePaths)}

\* The files glob reports for a directory holding the sample paths of S.
globFiles(S) ==
    LET picked == SelectSeq([n \in 1..Len(SamplePaths) |-> n], LAMBDA n : n \in S)
    IN [i \in 1..Len(picked) |-> SamplePaths[picked[i]]]

\* The trees of the model: a directory that does not exist, or one holding
\* up to MaxFiles of the sample paths, any of them unreadable.
SourceTrees ==
    {NoTree} \cup
    UNION {{[exists |-> TRUE, files |-> globFiles(S), unreadable |-> U] :
               U \in SUBSET {SamplePaths[n] : n \in S}} : S \in PathSets(MaxFiles)}

DiscoveryInit ==
    /\ SessionIdle
    /\ PipeIdle
    /\ AtlasIdle
    /\ OutIdle
    /\ CmdIdle
    /\ DepIdle
    /\ sourceTree \in SourceTrees
    /\ DiscState

DiscoveryNext ==
    \/ DiscoverAssets
    \/ CreateAssetFile
    \/ DiscoverLooseFiles
    \/ LooseFile

\* One discovery over a source tree.
DiscoverySpec == DiscoveryInit /\ [][DiscoveryNext]_vars

\* ====================================================== deployTexturePack
\* (deploy.ts)

\* A file is the set of its contents: empty when it does not exist, else the
\* one artifact it holds.  Artifact 0 was installed before the session,
\* artifact n is the one the build of the n-th deployTexturePack call wrote.
Installed == {{}, {0}}

\* The call of the sequence after the await that throws, if any:
\* mkdirSync of ensureDirectoryExists, mkdirSync or copyFileSync of
\* createBackup, copyFileSync of the deploy.
DeployFaults == {"none", "ensureDirectory", "backupMkdir", "backupCopy", "copy"}

\* Whether the call named by fault is made at all for this target.
canFail(fault, cfg, target, dir) ==
    CASE fault = "none" -> TRUE
      [] fault = "ensureDirectory" -> target = {}
      [] fault = "backupMkdir" -> cfg.backup /\ target # {} /\ ~dir.exists
      [] fault = "backupCopy" -> cfg.backup /\ target # {}
      [] fault = "copy" -> TRUE

\* createBackup(sourcePath, version): BACKUP_DIR after the call.  Whatever
\* it throws is caught inside and logged.  The name of the backup carries
\* the time, which the number of the call stands for.
createBackup(dir, file, version, at, fault) ==
    IF file = {} THEN dir
    ELSE IF fault = "backupMkdir" THEN dir
    ELSE IF fault = "backupCopy" THEN [dir EXCEPT !.exists = TRUE]
    ELSE [exists |-> TRUE,
          files |-> dir.files \cup
                        {[version |-> version, content |-> file, at |-> at]}]

\* An entry of deployLog.
logEntry(op, version, content, backup) ==
    [op |-> op, version |-> version, content |-> content, backup |-> backup]

\* deployTexturePack(version, config) down to its await of build(version).
DeployTexturePack(version, backup) ==
    /\ deploys < MaxDeploys
    /\ ~deploying[version].active
    /\ deploys' = deploys + 1
    /\ deploying' = [deploying EXCEPT
                        ![version] = [active |-> TRUE, backup |-> backup,
                                      id |-> deploys + 1]]
    /\ UNCHANGED <<sourceZip, targetZip, backupDir, deployLog>>
    /\ UNCHANGED <<queueVars, watchVars, pipeVars, atlasVars, outVars, cmdVars,
                   discVars>>

\* The build awaited by deployTexturePack ends and the call runs on to its
\* end without another await: the target directory is ensured, the existing
\* artifact is backed up if config.backup is set, and the artifact is copied
\* to the target.  A build that throws and a call that throws outside
\* createBackup end the deploy in its catch clause.
DeployResume(version, ok, fault) ==
    /\ deploying[version].active
    /\ deploying' = [deploying EXCEPT ![version] = NoDeploy]
    /\ IF ~ok
       THEN /\ fault = "none"
            /\ UNCHANGED <<sourceZip, targetZip, backupDir, deployLog>>
       ELSE LET cfg == deploying[version]
                old == targetZip[version]
                built == {cfg.id}
                after == IF cfg.backup /\ old # {}
                         THEN createBackup(backupDir, old, version, cfg.id, fault)
                         ELSE backupDir
                backup == IF after.files # backupDir.files
                          THEN <<logEntry("backup", version, old, cfg.backup)>>
                          ELSE <<>>
                copy == IF fault = "copy"
                        THEN <<>>
                        ELSE <<logEntry(IF old = {} THEN "create" ELSE "overwrite",
                                        version, old, cfg.backup)>>
            IN  /\ canFail(fault, cfg, old, backupDir)
                /\ sourceZip' = [sourceZip EXCEPT ![version] = built]
                /\ IF fault = "ensureDirectory"
                   THEN UNCHANGED <<targetZip, backupDir, deployLog>>
                   ELSE /\ backupDir' = after
                        /\ targetZip' = IF fault = "copy"
                                        THEN targetZip
                                        ELSE [targetZip EXCEPT ![version] = built]
                        /\ deployLog' = deployLog \o backup \o copy
    /\ UNCHANGED deploys
    /\ UNCHANGED <<queueVars, watchVars, pipeVars, atlasVars, outVars, cmdVars,
                   discVars>>

\* Targets with or without an artifact installed earlier, with or without a
\* backup directory.
DeployInit ==
    /\ SessionIdle
    /\ PipeIdle
    /\ AtlasIdle
    /\ OutIdle
    /\ CmdIdle
    /\ DiscIdle
    /\ deploying = [v \in VersionSet |-> NoDeploy]
    /\ sourceZip = [v \in VersionSet |-> {}]
    /\ targetZip \in [VersionSet -> Installed]
    /\ backupDir \in {[exists |-> e, files |-> {}] : e \in BOOLEAN}
    /\ deployLog = <<>>
    /\ deploys = 0

DeployNext ==
    \/ \E version \in VersionSet, backup \in BOOLEAN :
           DeployTexturePack(version, backup)
    \/ \E version \in VersionSet, ok \in BOOLEAN, fault \in DeployFaults :
           DeployResume(version, ok, fault)

\* Deploys of the profiles, one after another or at the same time.
DeploySpec == DeployInit /\ [][DeployNext]_vars

\* ============================== the atlas composer and the decomposer
\* (Beta173Transformer, TextureDecomposer)

\* A coordinate key is the sequence of its characters.
RemainingTiles == <<"r", "e", "m", "a", "i", "n", "i", "n", "g", "_",
                    "t", "i", "l", "e", "s">>

\* The keys of the model: cells inside the grid, one column and one row
\* beyond it, a negative column, a key that is no number, and the metadata key.
KeySet == {<<"0", ",", "0">>, <<"1", ",", "0">>, <<"2", ",", "0">>,
           <<"0", ",", "1">>, <<"-", "1", ",", "0">>, <<"x", ",", "0">>,
           RemainingTiles}

\* The names a cell maps to: the placeholder, a texture of the inventory and
\* a texture no inventory of the model holds.
TextureNames == {"unused", "dirt", "stone"}

\* The value parseInt returns for a string that starts with no number.
NaN == -1000

Digits == <<"0", "1", "2", "3", "4", "5", "6", "7", "8", "9">>

IsDigit(c) == \E n \in 1..Len(Digits) : Digits[n] = c

digitValue(c) == (CHOOSE n \in 1..Len(Digits) : Digits[n] = c) - 1

\* The number written by the longest prefix of digits of s.
RECURSIVE digitsValue(_, _)
digitsValue(s, acc) ==
    IF s = <<>> \/ ~IsDigit(Head(s))
    THEN acc
    ELSE digitsValue(Tail(s), acc * 10 + digitValue(Head(s)))

\* parseInt(s) in radix 10; the undefined of a missing part is the empty
\* sequence, which parses to NaN as well.
parseInt(s) ==
    LET signed == s # <<>> /\ Head(s) \in {"-", "+"}
        body == IF signed THEN Tail(s) ELSE s
    IN  IF body = <<>> \/ ~IsDigit(Head(body))
        THEN NaN
        ELSE IF signed /\ Head(s) = "-"
             THEN 0 - digitsValue(body, 0)
             ELSE digitsValue(body, 0)

\* coordKey.split(',')
RECURSIVE split(_)
split(s) ==
    IF s = <<>>
    THEN << <<>> >>
    ELSE IF Head(s) = ","
         THEN << <<>> >> \o split(Tail(s))
         ELSE LET rest == split(Tail(s))
              IN  << <<Head(s)>> \o Head(rest) >> \o Tail(rest)

\* const [xStr, yStr] = ...: a part that is missing is undefined.
part(parts, n) == IF Len(parts) >= n THEN parts[n] ELSE <<>>

gridXOf(coordKey) == parseInt(part(split(coordKey), 1))

gridYOf(coordKey) == parseInt(part(split(coordKey), 2))

\* a >= b and a * b of JavaScript numbers.
jsGe(a, b) == a # NaN /\ b # NaN /\ a >= b

jsTimes(a, b) == IF a = NaN \/ b = NaN THEN NaN ELSE a * b

\* The contents of atlas_coordinates_terrain.json: a grid of one row and two
\* columns, cells of 16 or of 32 pixels, and at most MaxEntries entries in
\* the order Object.entries yields them.
CoordinateEntries == [key : KeySet, name : TextureNames]

CoordinateLists ==
    {l \in UNION {[1..n -> CoordinateEntries] : n \in 0..MaxEntries} :
        \A i, j \in DOMAIN l : i # j => l[i].key # l[j].key}

CoordinateData ==
    [rows : {1}, cols : {2}, tile_size : {16, 32}, coordinates : CoordinateLists]

CoordinateFiles ==
    {NoCoordinateFile} \cup {[exists |-> TRUE, data |-> d] : d \in CoordinateData}

\* The inventory handed to transform(): a block texture and the pack file.
DirtAsset == [relativePath |-> "blocks/Dirt.png", type |-> "texture_blocks"]

PackAsset == [relativePath |-> "pack.txt", type |-> "metadata_pack"]

Inventories == {<<>>, <<DirtAsset>>, <<PackAsset>>, <<DirtAsset, PackAsset>>}

\* path.basename(p, path.extname(p)).toLowerCase() with white space replaced.
getTextureNameFromPath(relativePath) ==
    CASE relativePath = "blocks/Dirt.png" -> "dirt"
      [] relativePath = "pack.txt" -> "pack"

\* Images.  A source image has the cell size of the coordinate file.
image(name, size) == [name |-> name, size |-> size, resized |-> FALSE]

imageSize == IF coordFile.exists THEN coordFile.data.tile_size ELSE 16

sourceImage(asset) == image(getTextureNameFromPath(asset.relativePath), imageSize)

\* sharp(...).resize(16, 16)
resize16(img) ==
    IF img.size = 16 THEN img ELSE [name |-> img.name, size |-> 16, resized |-> TRUE]

UnusedFile == image("unused.png", 16)

Magenta == image("magenta", 16)

Transparent == image("transparent", 16)

\* unusedBuffer
unusedBuffer == IF unusedOnDisk THEN resize16(UnusedFile) ELSE Magenta

blockAssets(as) == SelectSeq(as, LAMBDA a : a.type = "texture_blocks")

otherAssets(as) == SelectSeq(as, LAMBDA a : a.type # "texture_terrain")

\* blockAssets.find(...): the index of the first match, 0 when there is none.
findAsset(bs, textureName) ==
    LET hits == {i \in 1..Len(bs) :
                    getTextureNameFromPath(bs[i].relativePath) = textureName}
    IN  IF hits = {} THEN 0 ELSE CHOOSE i \in hits : \A j \in hits : i <= j

outOfBounds_never(gridX, gridY, data) == FALSE

\* The bounds test of the composer.
outOfBounds(gridX, gridY, data) ==
    jsGe(gridX, data.cols) \/ jsGe(gridY, data.rows)

\* The canvas processTerrainGrid creates, in pixels.
canvas == [width |-> 256, height |-> 256]

\* The 16x16 block of a 256x256 canvas at (left, top) after the layers were
\* composited in order: layers lie on multiples of 16, so a block shows the
\* last layer placed on it.
canvasBlock(layers, left, top) ==
    LET hits == {i \in 1..Len(layers) :
                    layers[i].left = left /\ layers[i].top = top}
    IN  IF hits = {}
        THEN Transparent
        ELSE layers[CHOOSE i \in hits : \A j \in hits : j <= i].input

\* sharp's composite(): an offset that is no integer is rejected; a negative
\* offset is rejected or clipped, depending on the release of the library.
compositeRejects(layers, negativeOffsets) ==
    \E i \in 1..Len(layers) :
        \/ layers[i].left = NaN \/ layers[i].top = NaN
        \/ (~negativeOffsets /\ (layers[i].left < 0 \/ layers[i].top < 0))

\* sharp's extract(): the region must lie inside the 256x256 image.
extractRejects(left, top) ==
    \/ left = NaN \/ top = NaN
    \/ left < 0 \/ top < 0 \/ left + 16 > 256 \/ top + 16 > 256

\* The layer the composer stages for a cell.
layerAt(img, gridX, gridY, data) ==
    [input |-> img,
     left |-> jsTimes(gridX, data.tile_size),
     top |-> jsTimes(gridY, data.tile_size)]

stageEntry_unusedLeftOut(e, data, bs, ok) ==
    LET gridX == gridXOf(e.key)
        gridY == gridYOf(e.key)
        idx == findAsset(bs, e.name)
        none == [layers |-> <<>>, skipped |-> <<>>]
    IN  IF e.key = RemainingTiles \/ outOfBounds(gridX, gridY, data) \/ e.name = "unused"
        THEN none
        ELSE IF idx = 0
        THEN [layers |-> <<>>, skipped |-> <<e.name>>]
        ELSE IF ok
        THEN [layers |-> <<layerAt(resize16(sourceImage(bs[idx])), gridX, gridY, data)>>,
              skipped |-> <<>>]
        ELSE [layers |-> <<>>, skipped |-> <<bs[idx].relativePath>>]

\* One pass of the loop over the coordinate entries: the layers it appends to
\* compositeLayers and the names it appends to skippedFiles.  ok tells
\* whether sharp could decode the matching asset.
stageEntry(e, data, bs, ok) ==
    LET gridX == gridXOf(e.key)
        gridY == gridYOf(e.key)
        idx == findAsset(bs, e.name)
        none == [layers |-> <<>>, skipped |-> <<>>]
    IN  IF e.key = RemainingTiles \/ outOfBounds(gridX, gridY, data)
        THEN none
        ELSE IF e.name = "unused"
        THEN [layers |-> <<layerAt(unusedBuffer, gridX, gridY, data)>>,
              skipped |-> <<>>]
        ELSE IF idx = 0
        THEN [layers |-> <<>>, skipped |-> <<e.name>>]
        ELSE IF ok
        THEN [layers |-> <<layerAt(resize16(sourceImage(bs[idx])), gridX, gridY, data)>>,
              skipped |-> <<>>]
        ELSE [layers |-> <<>>, skipped |-> <<bs[idx].relativePath>>]

\* The result transform() resolves with.
atlasReturn(success, error) ==
    atlasResult' = [returned |-> TRUE, success |-> success, error |-> error]

\* transform() down to the loop of processTerrainGrid: without block assets
\* the atlas is skipped, without the coordinate file loadCoordinates throws
\* and transform() returns the failure.
TransformBegin ==
    /\ atlasPc = "idle"
    /\ IF Len(blockAssets(assets)) = 0
       THEN /\ skippedFiles' = Append(skippedFiles, "terrain.png")
            /\ atlasPc' = "copy"
            /\ UNCHANGED atlasResult
       ELSE IF ~coordFile.exists
       THEN /\ atlasReturn(FALSE, "Coordinate file not found")
            /\ atlasPc' = "done"
            /\ UNCHANGED skippedFiles
       ELSE /\ atlasPc' = "loop"
            /\ UNCHANGED <<skippedFiles, atlasResult>>
    /\ UNCHANGED <<coordFile, assets, unusedOnDisk, undecodable, entryIdx,
                   compositeLayers, processedFiles, copyIdx, terrainPng,
                   outFiles, decFile, positions, decIdx, extracted>>
    /\ UNCHANGED <<queueVars, watchVars, pipeVars, outVars, toolVars>>

\* One pass of the loop over Object.entries(coordinates.coordinates).
ComposeEntry ==
    /\ atlasPc = "loop"
    /\ entryIdx <= Len(coordFile.data.coordinates)
    /\ LET e == coordFile.data.coordinates[entryIdx]
           bs == blockAssets(assets)
           idx == findAsset(bs, e.name)
           ok == idx # 0 /\ bs[idx].relativePath \notin undecodable
           staged == stageEntry(e, coordFile.data, bs, ok)
       IN  /\ compositeLayers' = compositeLayers \o staged.layers
           /\ skippedFiles' = skippedFiles \o staged.skipped
    /\ entryIdx' = entryIdx + 1
    /\ UNCHANGED <<coordFile, assets, unusedOnDisk, undecodable, atlasPc,
                   processedFiles, copyIdx, terrainPng, atlasResult, outFiles,
                   decFile, positions, decIdx, extracted>>
    /\ UNCHANGED <<queueVars, watchVars, pipeVars, outVars, toolVars>>

\* After the loop: the layers are composited and terrain.png is written, or
\* terrain.png is skipped when there is no layer.  A composite() that throws
\* ends transform() in its catch clause.
CompositeLayers(negativeOffsets) ==
    /\ atlasPc = "loop"
    /\ entryIdx > Len(coordFile.data.coordinates)
    /\ IF Len(compositeLayers) > 0
       THEN IF compositeRejects(compositeLayers, negativeOffsets)
            THEN /\ atlasReturn(FALSE, "composite")
                 /\ atlasPc' = "done"
                 /\ UNCHANGED <<terrainPng, processedFiles, skippedFiles>>
            ELSE /\ terrainPng' = [written |-> TRUE, layers |-> compositeLayers]
                 /\ processedFiles' = Append(processedFiles, "terrain.png")
                 /\ atlasPc' = "copy"
                 /\ UNCHANGED <<skippedFiles, atlasResult>>
       ELSE /\ skippedFiles' = Append(skippedFiles, "terrain.png")
            /\ atlasPc' = "copy"
            /\ UNCHANGED <<terrainPng, processedFiles, atlasResult>>
    /\ UNCHANGED <<coordFile, assets, unusedOnDisk, undecodable, entryIdx,
                   compositeLayers, copyIdx, outFiles, decFile, positions,
                   decIdx, extracted>>
    /\ UNCHANGED <<queueVars, watchVars, pipeVars, outVars, toolVars>>

\* One pass of the loop of copyOtherFiles; ok tells whether the copy worked.
CopyOtherFile(ok) ==
    /\ atlasPc = "copy"
    /\ copyIdx <= Len(otherAssets(assets))
    /\ LET asset == otherAssets(assets)[copyIdx]
       IN  IF ok
           THEN /\ outFiles' = outFiles \cup {asset.relativePath}
                /\ processedFiles' = Append(processedFiles, asset.relativePath)
                /\ UNCHANGED skippedFiles
           ELSE /\ skippedFiles' = Append(skippedFiles, asset.relativePath)
                /\ UNCHANGED <<outFiles, processedFiles>>
    /\ copyIdx' = copyIdx + 1
    /\ UNCHANGED <<coordFile, assets, unusedOnDisk, undecodable, atlasPc,
                   entryIdx, compositeLayers, terrainPng, atlasResult,
                   decFile, positions, decIdx, extracted>>
    /\ UNCHANGED <<queueVars, watchVars, pipeVars, outVars, toolVars>>

\* transform() returns its lists with success.
TransformReturn ==
    /\ atlasPc = "copy"
    /\ copyIdx > Len(otherAssets(assets))
    /\ atlasReturn(TRUE, "none")
    /\ atlasPc' = "done"
    /\ UNCHANGED <<coordFile, assets, unusedOnDisk, undecodable, entryIdx,
                   compositeLayers, processedFiles, skippedFiles, copyIdx,
                   terrainPng, outFiles, decFile, positions, decIdx, extracted>>
    /\ UNCHANGED <<queueVars, watchVars, pipeVars, outVars, toolVars>>

\* ------------------------------------------------------- the decomposer
\* The head of LEGACY_TERRAIN_POSITIONS.
LEGACY_TERRAIN_POSITIONS ==
    <<[textureName |-> "grass", gridX |-> 0, gridY |-> 0],
      [textureName |-> "stone", gridX |-> 1, gridY |-> 0],
      [textureName |-> "dirt", gridX |-> 2, gridY |-> 0]>>

RECURSIVE parseCoordinates(_)
parseCoordinates(coordinates) ==
    IF coordinates = <<>>
    THEN <<>>
    ELSE LET e == Head(coordinates)
         IN  IF e.key = RemainingTiles \/ e.name = "unused"
             THEN parseCoordinates(Tail(coordinates))
             ELSE <<[textureName |-> e.name,
                     gridX |-> gridXOf(e.key),
                     gridY |-> gridYOf(e.key)]>>
                  \o parseCoordinates(Tail(coordinates))

\* The positions decomposeTextures works through for a terrain file.
positionsFor(file) ==
    IF file.exists THEN parseCoordinates(file.data.coordinates)
    ELSE LEGACY_TERRAIN_POSITIONS

\* The 16x16 tile the decomposer reads at (left, top) of the file it was given:
\* the atlas the composer wrote, or the terrain.png of the game.
tileOf(file, left, top) ==
    IF file = "built" THEN canvasBlock(terrainPng.layers, left, top)
    ELSE image("vanilla", 16)

\* decomposeTextures(filePath, outputDir) down to its loop, on the atlas the
\* transform has written or on the game's own terrain.png, into an empty
\* output directory.  It throws when the file does not exist.
DecomposeTextures(file) ==
    /\ \/ file = "vanilla" /\ atlasPc = "idle"
       \/ file = "built" /\ atlasPc = "done"
    /\ decFile' = file
    /\ IF file = "built" /\ ~terrainPng.written
       THEN /\ atlasPc' = "decomposeThrown"
            /\ UNCHANGED positions
       ELSE /\ atlasPc' = "extract"
            /\ positions' = positionsFor(coordFile)
    /\ UNCHANGED <<coordFile, assets, unusedOnDisk, undecodable, entryIdx,
                   compositeLayers, processedFiles, skippedFiles, copyIdx,
                   terrainPng, atlasResult, outFiles, decIdx, extracted>>
    /\ UNCHANGED <<queueVars, watchVars, pipeVars, outVars, toolVars>>

\* One pass of the loop over the positions: a texture that exists already is
\* kept, a tile that cannot be extracted is reported and left out.
ExtractTile ==
    /\ atlasPc = "extract"
    /\ decIdx <= Len(positions)
    /\ LET p == positions[decIdx]
           left == jsTimes(p.gridX, 16)
           top == jsTimes(p.gridY, 16)
       IN  IF (\E x \in extracted : x.name = p.textureName) \/ extractRejects(left, top)
           THEN UNCHANGED extracted
           ELSE extracted' = extracted \cup
                    {[name |-> p.textureName, img |-> tileOf(decFile, left, top)]}
    /\ decIdx' = decIdx + 1
    /\ UNCHANGED <<coordFile, assets, unusedOnDisk, undecodable, atlasPc,
                   entryIdx, compositeLayers, processedFiles, skippedFiles,
                   copyIdx, terrainPng, atlasResult, outFiles, decFile,
                   positions>>
    /\ UNCHANGED <<queueVars, watchVars, pipeVars, outVars, toolVars>>

\* decomposeTextures returns.
DecomposeReturn ==
    /\ atlasPc = "extract"
    /\ decIdx > Len(positions)
    /\ atlasPc' = "decomposed"
    /\ UNCHANGED <<coordFile, assets, unusedOnDisk, undecodable, entryIdx,
                   compositeLayers, processedFiles, skippedFiles, copyIdx,
                   terrainPng, atlasResult, outFiles, decFile, positions,
                   decIdx, extracted>>
    /\ UNCHANGED <<queueVars, watchVars, pipeVars, outVars, toolVars>>

\* A transformer and a decomposer given any coordinate file, inventory and
\* placeholder of the model.
AtlasInit ==
    /\ SessionIdle
    /\ PipeIdle
    /\ coordFile \in CoordinateFiles
    /\ assets \in Inventories
    /\ unusedOnDisk \in BOOLEAN
    /\ undecodable \in SUBSET {a.relativePath : a \in Range(blockAssets(assets))}
    /\ AtlasState
    /\ OutIdle
    /\ ToolsIdle

AtlasNext ==
    \/ TransformBegin
    \/ ComposeEntry
    \/ \E negativeOffsets \in BOOLEAN : CompositeLayers(negativeOffsets)
    \/ \E ok \in BOOLEAN : CopyOtherFile(ok)
    \/ TransformReturn
    \/ \E file \in {"built", "vanilla"} : DecomposeTextures(file)
    \/ ExtractTile
    \/ DecomposeReturn

AtlasSpec == AtlasInit /\ [][AtlasNext]_vars

\* ================================================================ claims
StartedCount(k) ==
    Cardinality({i \in Ids(reqs) : reqs[i].key = k /\ reqs[i].st \in StartedStates})

SchedCount(k) ==
    Cardinality({i \in Ids(reqs) : reqs[i].key = k /\ reqs[i].kind = "sched"})

InFlight(k) == {i \in Ids(reqs) : reqs[i].key = k /\ reqs[i].st = "running"}

\* C1: as long as every scheduleBuild(k) of a queue came less than the debounce
\* window after the previous one (and nothing else touched k), no build of k
\* has started while the timer is pending, and exactly one has started once
\* the timer is gone.
C1_DebounceCollapsesBursts ==
    \A k \in Keys :
        (burst[k] /\ SchedCount(k) >= 1) =>
            IF queues[k] # 0 THEN StartedCount(k) = 0 ELSE StartedCount(k) = 1

\* A burst of at least two calls has led to its one execution.
C1_Witness ==
    \E k \in Keys :
        burst[k] /\ SchedCount(k) >= 2 /\ queues[k] = 0 /\ StartedCount(k) = 1

\* C2: at most one execution started by executeBuild is in flight per profile,
\* and the building set holds exactly the profiles with an execution in
\* flight, so a rejected executeBuild has not removed the in-flight run's entry.
C2_SingleFlight ==
    \A k \in Keys :
        /\ Cardinality(InFlight(k)) <= 1
        /\ k \in building <=> InFlight(k) # {}

\* An executeBuild was rejected while a run of the same profile is in flight,
\* and the profile is still in the building set.
C2_Witness ==
    \E i, j \in Ids(reqs) :
        /\ reqs[i].key = reqs[j].key
        /\ reqs[i].st = "running"
        /\ reqs[j].st = "rejected"
        /\ reqs[i].key \in building

\* C3 (as claimed): a scheduleBuild issued while a build of its profile was
\* running is never dropped, that is, its executeBuild is never rejected.
C3_NeverDropped ==
    \A i \in Ids(reqs) :
        (reqs[i].kind = "sched" /\ reqs[i].busy) => reqs[i].st # "rejected"

\* C4: every live timer is the one registered for its profile (so there is at
\* most one per profile and a replaced timer, no longer registered, is not
\* live and cannot fire), and no execution started by a timer began less than
\* the debounce window after the latest scheduleBuild of its profile.
C4_DebounceByReplacement ==
    /\ \A i \in Ids(reqs) : reqs[i].st = "timer" => queues[reqs[i].key] = i
    /\ \A i \in Ids(reqs) : reqs[i].kind = "sched" => ~reqs[i].early

\* A timer was replaced and its successor has started the build.
C4_Witness ==
    \E i, j \in Ids(reqs) :
        /\ i < j
        /\ reqs[i].key = reqs[j].key
        /\ reqs[i].st = "cleared"
        /\ reqs[j].kind = "sched"
        /\ reqs[j].st \in StartedStates

UnderShared(filePath) ==
    Len(filePath) >= 3 /\ filePath[1] = "versions" /\ filePath[2] = "shared"

UnderProfile(filePath, v) ==
    Len(filePath) >= 3 /\ filePath[1] = "versions" /\ filePath[2] = v

\* C5: a change below versions/shared calls scheduleBuild exactly once for
\* every known profile, a change below versions/<v> of a known profile v
\* calls it once, for v.
C5_SharedFanOut ==
    lastEvent.seen =>
        /\ UnderShared(lastEvent.path) =>
              /\ Len(lastEvent.calls) = Len(AvailableVersions)
              /\ \A v \in VersionSet :
                    Cardinality({n \in 1..Len(lastEvent.calls) :
                                    lastEvent.calls[n] = v}) = 1
        /\ \A v \in VersionSet :
              UnderProfile(lastEvent.path, v) => lastEvent.calls = <<v>>

\* A shared change has fanned out to more than one profile.
C5_Witness ==
    /\ lastEvent.seen
    /\ UnderShared(lastEvent.path)
    /\ Len(lastEvent.calls) >= 2
    /\ \A v \in VersionSet : queues[v] # 0

\* C6 (as claimed): a change at a path that is neither below versions/shared
\* nor below the directory of a known profile schedules no build.
C6_UnrecognizedIgnored ==
    (/\ lastEvent.seen
     /\ ~UnderShared(lastEvent.path)
     /\ \A v \in VersionSet : ~UnderProfile(lastEvent.path, v))
        => lastEvent.calls = <<>>

\* C7 (as claimed): whatever fails in the promise chain of a change handler,
\* the watch session goes on.
C7_HandlerFailureKeepsSession ==
    \A i \in Ids(reqs) :
        reqs[i].st \in {"rejected", "failed", "deployFailed", "exit"} => alive

\* C8 (as claimed): the deploy step runs only in deploy_on_change mode and
\* only after the debounced build succeeded, and the artifact it copies to the
\* target is the one that debounced build wrote.
C8_DeployHandsOverBuiltArtifact ==
    /\ \A i \in Ids(reqs) :
          reqs[i].st \in {"noConfig", "exit", "deploying", "deployed", "deployFailed"}
              => deployOnChange
    /\ \A k \in Keys : deployed[k] # "none" => deployed[k] = "queue"

\* C9 (as claimed): once stop() has returned (and start() was not called
\* again) no timer is pending and no build has started since.
C9_StopQuiesces ==
    stopPc = "returned" =>
        /\ \A i \in Ids(reqs) : reqs[i].st # "timer"
        /\ \A i \in Ids(reqs) : ~reqs[i].late

\* C10: a stop() that is closing the watcher returns, with the watcher list
\* empty and isRunning false, also when close() never settles (unless the
\* process exits first).
C10_StopTerminates ==
    (stopPc = "closing") ~>
        (~alive \/ (stopPc = "returned" /\ watchers = 0 /\ ~isRunning))

\* stop() has returned on its timeout while close() is still unsettled.
C10_Witness ==
    stopPc = "returned" /\ fsw = "closing" /\ watchers = 0 /\ ~isRunning

\* ------------------------------------------------ claims on the pipeline
\* C11: processVersion for a profile id that has no registered transformer
\* returns a failed result with empty processedFiles and skippedFiles, and
\* has touched nothing: no output directory, no scratch directory, no
\* discovery.
C11_MissingTransformer ==
    (pvOutcome # "none" /\ get(registry, pipeVersion) = "none") =>
        /\ pvOutcome = "returned"
        /\ ~pipeResult.success
        /\ pipeResult.processedFiles = <<>>
        /\ pipeResult.skippedFiles = <<>>
        /\ ~outputDirExists
        /\ ~buildDirExists
        /\ discovery = "notRun"

\* A client's processVersion has returned for an id without a transformer
\* while another profile has one.
C11_Witness ==
    /\ pipeCaller = "direct"
    /\ pvOutcome = "returned"
    /\ get(registry, pipeVersion) = "none"
    /\ \E v \in PipeIds : get(registry, v) # "none"

\* C12: processVersion never throws; whichever of its steps fails (creating
\* a directory, discovery, filtering, the transformer, the scratch cleanup),
\* it returns a result with success = false that carries that error.
C12_NoFaultPropagates ==
    /\ pvOutcome # "thrown"
    /\ (pvOutcome = "returned" /\ pipeFault # "none") =>
           (~pipeResult.success /\ pipeResult.error = pipeFault)

\* processVersion has returned after its transformer threw.
C12_Witness ==
    /\ pvOutcome = "returned"
    /\ pipeFault = "transform"
    /\ ~pipeResult.success

\* C13: when a run has returned, the scratch directories it created are
\* gone: the .build directory of processVersion, and for build() its
\* temporary directory as well (unless a removal itself has failed).
C13_ScratchDirectoryScoped ==
    (pipePc = "done" /\ ~removeFailed) =>
        /\ ~buildDirExists
        /\ pipeCaller = "build" => ~outputDirExists

\* ------------------------------------- claims on the composer and decomposer
coords == coordFile.data.coordinates

\* The entry at i is a cell of the grid.
InGrid(i) ==
    /\ coords[i].key # RemainingTiles
    /\ gridXOf(coords[i].key) \in 0..(coordFile.data.cols - 1)
    /\ gridYOf(coords[i].key) \in 0..(coordFile.data.rows - 1)

\* The entry at i decodes to a column or a row beyond the grid.
BeyondGrid(i) ==
    /\ coords[i].key # RemainingTiles
    /\ gridXOf(coords[i].key) # NaN
    /\ gridYOf(coords[i].key) # NaN
    /\ \/ gridXOf(coords[i].key) >= coordFile.data.cols
       \/ gridYOf(coords[i].key) >= coordFile.data.rows

cellLeft(i) == jsTimes(gridXOf(coords[i].key), coordFile.data.tile_size)

cellTop(i) == jsTimes(gridYOf(coords[i].key), coordFile.data.tile_size)

\* C14: in a result returned by transform, no path is in both processedFiles
\* and skippedFiles, every entry of the lists is a relative path the
\* transformer examined, and a successful result lists every one of them.
C14_ListsPartitionExamined ==
    LET examined == {"terrain.png"} \cup
                    {otherAssets(assets)[i].relativePath :
                        i \in 1..Len(otherAssets(assets))}
    IN  atlasResult.returned =>
            /\ Range(processedFiles) \cap Range(skippedFiles) = {}
            /\ Range(processedFiles) \cup Range(skippedFiles) \subseteq examined
            /\ atlasResult.success =>
                   Range(processedFiles) \cup Range(skippedFiles) = examined

KeysDecode ==
    \A i \in 1..Len(coords) :
        coords[i].key # RemainingTiles =>
            (gridXOf(coords[i].key) >= 0 /\ gridYOf(coords[i].key) >= 0)

\* C16: an entry with gridX >= cols or gridY >= rows stages no layer, does
\* not show in the composite, and does not make the run fail.
C16_OutOfBoundsSkipped ==
    /\ \A i \in 1..Len(coords) :
           (atlasPc # "idle" /\ i < entryIdx /\ BeyondGrid(i)) =>
               /\ \A n \in 1..Len(compositeLayers) :
                      ~(compositeLayers[n].left = cellLeft(i)
                        /\ compositeLayers[n].top = cellTop(i))
               /\ terrainPng.written =>
                      canvasBlock(terrainPng.layers, cellLeft(i), cellTop(i))
                          = Transparent
    /\ (atlasResult.returned /\ coordFile.exists /\ KeysDecode) =>
           atlasResult.success

\* transform returned success for a map with an entry beyond the grid and
\* wrote the atlas.
C16_Witness ==
    /\ atlasResult.returned
    /\ atlasResult.success
    /\ terrainPng.written
    /\ \E i \in 1..Len(coords) : BeyondGrid(i) /\ coords[i].name # "stone"

\* C17: every staged layer lies on a cell of the grid, 0 <= gridX < cols and
\* 0 <= gridY < rows: entries with negative coordinates or with keys that
\* are no integers stage nothing.
C17_StagedLayersInsideGrid ==
    \A n \in 1..Len(compositeLayers) :
        LET l == compositeLayers[n]
        IN  /\ l.left # NaN
            /\ l.top # NaN
            /\ 0 <= l.left
            /\ l.left < coordFile.data.cols * coordFile.data.tile_size
            /\ 0 <= l.top
            /\ l.top < coordFile.data.rows * coordFile.data.tile_size

\* C18: once the composer has decided about the composite: with no staged
\* layer terrain.png is not written and is in skippedFiles only; with a
\* staged layer terrain.png is written and is in processedFiles only.
C18_CompositeIffLayers ==
    ((atlasPc = "copy" \/ atlasResult.returned)
        /\ atlasResult.error # "Coordinate file not found") =>
        IF Len(compositeLayers) = 0
        THEN /\ ~terrainPng.written
             /\ "terrain.png" \in Range(skippedFiles)
             /\ "terrain.png" \notin Range(processedFiles)
        ELSE /\ terrainPng.written
             /\ "terrain.png" \in Range(processedFiles)
             /\ "terrain.png" \notin Range(skippedFiles)

\* C19: without a coordinate file, a transform of an inventory with block
\* textures still succeeds and writes the composite.
C19_DefaultTableFallback ==
    (atlasResult.returned /\ ~coordFile.exists /\ Len(blockAssets(assets)) > 0) =>
        (atlasResult.success /\ terrainPng.written)

\* The cell at i was resolved: the composer staged the image of its name.
Resolved(i) ==
    \E n \in 1..Len(terrainPng.layers) :
        /\ terrainPng.layers[n].left = cellLeft(i)
        /\ terrainPng.layers[n].top = cellTop(i)
        /\ terrainPng.layers[n].input.name = coords[i].name

\* C20: after the atlas the composer wrote was decomposed with the same map
\* into an empty directory, every resolved cell of the grid that is not
\* 'unused' has its texture written, identical to the source image.
C20_AtlasRoundTrip ==
    (atlasPc = "decomposed" /\ decFile = "built") =>
        \A i \in 1..Len(coords) :
            (InGrid(i) /\ coords[i].name # "unused" /\ Resolved(i)) =>
                LET bs == blockAssets(assets)
                    src == sourceImage(bs[findAsset(bs, coords[i].name)])
                IN  [name |-> coords[i].name, img |-> src] \in extracted

\* ------------------------------------------- claims on build() and its output
\* C21: the archive of a successful build holds, at every path of the
\* profile's own directory, the profile's file, also where the transform
\* wrote a file at the same path.
C21_OverridesNeverMasked ==
    buildOutcome = "returned" =>
        \A p \in versionFiles : zipFiles[p] = "profile"

\* C30: once the pass-through copy of a successful pipeline result has
\* completed, every file of the profile's directory whose relative path is
\* not a processed file is in the output, and at every path that is a
\* processed file the output still holds what the pipeline wrote.
C30_PassThroughCopy ==
    (pipeCaller = "build" /\ pipePc = "createZip") =>
        \A p \in versionFiles :
            IF p \in Range(pipeResult.processedFiles)
            THEN tempFiles[p] = "pipeline"
            ELSE tempFiles[p] = "profile"

\* The copy has completed over a directory that holds a processed path and
\* an unprocessed one.
C30_Witness ==
    /\ pipeCaller = "build"
    /\ pipePc = "createZip"
    /\ versionFiles = ProfilePaths
    /\ Range(pipeResult.processedFiles) = {"terrain.png"}

\* The steps of a run in the order the claim gives them.
StepRank(step) ==
    CASE step = "discovery" -> 1
      [] step = "filter" -> 2
      [] step = "transform" -> 3
      [] step = "copy" -> 4
      [] step = "package" -> 5
      [] step = "removeTemp" -> 6

Completed(step) == step \in Range(stepsDone)

\* C29: the steps of one run complete in the order discovery, filtering,
\* transform, pass-through copy, packaging, removal of the temporary
\* directory, none of them twice; no step completes without the one it
\* follows (the transform and its filter are left out when discovery found
\* nothing), and the temporary directory is removed only after packaging has
\* completed or when the run has failed.
C29_StepsOrdered ==
    /\ \A i, j \in 1..Len(stepsDone) :
           i < j => StepRank(stepsDone[i]) < StepRank(stepsDone[j])
    /\ Completed("filter") => Completed("discovery")
    /\ Completed("transform") => Completed("filter")
    /\ Completed("copy") =>
           /\ Completed("discovery")
           /\ Completed("transform") \/ discovery = "empty"
    /\ Completed("package") => Completed("copy")
    /\ Completed("removeTemp") =>
           Completed("package") \/ buildOutcome = "thrown"

\* A build that returned after all of its steps.
C29_Witness ==
    /\ buildOutcome = "returned"
    /\ stepsDone = <<"discovery", "filter", "transform", "copy", "package",
                    "removeTemp">>

\* ------------------------------------------------ claims on the build command
\* The profiles the command has called build() for, in the order of the calls.
Attempted == [i \in 1..Len(attempts) |-> attempts[i].version]

Failed == {i \in 1..Len(attempts) : ~attempts[i].built}

\* C22: when an 'all' batch has ended, build() has been called for every
\* available profile exactly once and in order, whichever of them failed, and
\* the tally counts the profiles that built as succeeded and the others as
\* failed.
C22_BatchContinues ==
    (exited /\ cmdArg = "all") =>
        /\ Attempted = getAvailableVersions
        /\ successCount = Len(attempts) - Cardinality(Failed)
        /\ cmdEntry = "script" => failureCount = Cardinality(Failed)

\* A batch has ended whose first profile failed and whose second profile
\* was attempted all the same.
C22_Witness ==
    /\ exited
    /\ cmdArg = "all"
    /\ Len(attempts) = Len(getAvailableVersions)
    /\ 1 \in Failed

\* C23: when the command has ended, its exit code is 1 if a requested
\* profile failed to build and 0 if every requested profile was built.
C23_ExitCode ==
    (exited /\ attempts # <<>>) =>
        exitCode = IF Failed # {} THEN 1 ELSE 0

\* ---------------------------------------------------- claims on the registry
\* The register calls made with version id.
CallsFor(id) == {i \in 1..Len(regCalls) : regCalls[i].version = id}

Last(S) == CHOOSE i \in S : \A j \in S : j <= i

\* C25: after any sequence of register calls, get(id) is the transformer of
\* the last call made with version id, and absent when no call was made with
\* that id, whether or not a registered transformer says it is applicable to
\* id.
C25_LastWriteWins ==
    \A id \in PipeIds :
        get(registry, id) = IF CallsFor(id) = {}
                            THEN "none"
                            ELSE regCalls[Last(CallsFor(id))].name

\* Beta173Transformer was registered and then replaced under its version,
\* and no lookup finds anything under its other id.
C25_Witness ==
    /\ Len(regCalls) >= 2
    /\ regCalls[1] = Beta173
    /\ get(registry, Beta173Version) = "other"
    /\ isApplicable(Beta173, Beta173Alias)
    /\ get(registry, Beta173Alias) = "none"

\* ---------------------------------------------------- claims on discovery
\* The paths of the records of a list.
PathsOf(as) == [i \in 1..Len(as) |-> as[i].relativePath]

\* The files of the tree whose stat succeeds, in the order glob gave them.
Readable == SelectSeq(sourceTree.files, LAMBDA f : f \notin sourceTree.unreadable)

\* C24: when discoverAssets has returned, its records are those of the files
\* whose stat succeeded, a file whose stat failed is in no record and is
\* counted in totalFiles; a source directory that does not exist gives an
\* empty inventory, no error.
C24_PartialFailureTolerated ==
    (discWho = "discovery" /\ discPc = "done") =>
        /\ discResult.returned
        /\ PathsOf(discResult.assets) = Readable
        /\ sourceTree.exists => discResult.totalFiles = Len(sourceTree.files)
        /\ ~sourceTree.exists =>
               discResult.assets = <<>> /\ discResult.totalFiles = 0

\* discoverAssets has returned from a tree with an unreadable file followed
\* by a readable one.
C24_Witness ==
    /\ discWho = "discovery"
    /\ discPc = "done"
    /\ Len(sourceTree.files) >= 2
    /\ sourceTree.files[1] \in sourceTree.unreadable
    /\ sourceTree.files[2] \notin sourceTree.unreadable

\* What each sample path is, read off its text: the kind of its extension,
\* the metadata rule its file name meets, the recognized directory it lies in.
SampleFacts ==
    <<[ext |-> "text", name |-> "pack", dir |-> "none"],
      [ext |-> "text", name |-> "pack", dir |-> "blocks"],
      [ext |-> "text", name |-> "config", dir |-> "blocks"],
      [ext |-> "image", name |-> "config", dir |-> "gui"],
      [ext |-> "image", name |-> "none", dir |-> "blocks"],
      [ext |-> "image", name |-> "none", dir |-> "blocks"],
      [ext |-> "image", name |-> "none", dir |-> "terrain"],
      [ext |-> "image", name |-> "none", dir |-> "items"],
      [ext |-> "image", name |-> "none", dir |-> "gui"],
      [ext |-> "image", name |-> "none", dir |-> "environment"],
      [ext |-> "image", name |-> "none", dir |-> "particles"],
      [ext |-> "image", name |-> "none", dir |-> "misc"],
      [ext |-> "unsupported", name |-> "none", dir |-> "blocks"],
      [ext |-> "unsupported", name |-> "config", dir |-> "none"],
      [ext |-> "image", name |-> "none", dir |-> "none"],
      [ext |-> "text", name |-> "none", dir |-> "none"],
      [ext |-> "image", name |-> "none", dir |-> "none"],
      [ext |-> "unsupported", name |-> "none", dir |-> "none"]>>

FactsOf(path) ==
    SampleFacts[CHOOSE n \in 1..Len(SamplePaths) : SamplePaths[n] = path]

\* The kind the rules give in the claim's order of precedence.
KindBy(facts) ==
    IF facts.ext = "unsupported" THEN "unknown"
    ELSE IF facts.name = "pack" THEN "metadata_pack"
    ELSE IF facts.name = "config" THEN "metadata_config"
    ELSE IF facts.dir # "none" THEN "texture_" \o facts.dir
    ELSE IF facts.ext = "image" THEN "texture_blocks"
    ELSE "unknown"

\* C26: every record of an inventory carries the one kind the rules give
\* its path: unknown for an unsupported extension whatever the directory,
\* else the metadata kind of its file name, else the kind of its directory,
\* else block texture for an image and unknown for anything else.
C26_ClassifierPrecedence ==
    \A i \in 1..Len(discAssets) :
        discAssets[i].type = KindBy(FactsOf(discAssets[i].relativePath))

\* The same for the classifier of AssetDiscovery alone.
C26_DiscoveryClassifier ==
    discWho = "discovery" => C26_ClassifierPrecedence

C26_DiscoveryWitness ==
    /\ discWho = "discovery"
    /\ \E i \in 1..Len(discAssets) :
           /\ FactsOf(discAssets[i].relativePath).name = "config"
           /\ FactsOf(discAssets[i].relativePath).dir = "blocks"

\* ------------------------------------------- claims on builds that overlap
\* The calls whose build(k) is executing: the build of the queue, or the one
\* deployTexturePack started.
Executing(k) ==
    {i \in Ids(reqs) : reqs[i].key = k /\ reqs[i].st \in {"running", "deploying"}}

\* C27: in a watch session, deploy_on_change or not, at most one build(v) of
\* a profile v is executing at any time.
C27_NoOverlappingBuilds ==
    \A k \in Keys : Cardinality(Executing(k)) <= 1

\* C28: the temporary directories of two builds of one profile that are
\* executing at the same time have different paths.
C28_ScratchPathsDiffer ==
    \A k \in Keys : \A i, j \in Executing(k) :
        i # j => tempBuildDir(k, scratch[i]) # tempBuildDir(k, scratch[j])

\* ------------------------------------------- claims on the canvas and the copy
\* C31: once a layer is staged, the canvas is cols * tile_size wide and
\* rows * tile_size high, and every staged layer is a tile_size x tile_size
\* image at (gridX * tile_size, gridY * tile_size) of an entry of the map
\* that lies wholly inside the canvas.
C31_CanvasGeometry ==
    (coordFile.exists /\ Len(compositeLayers) > 0) =>
        LET cellSize == coordFile.data.tile_size
        IN  /\ canvas.width = coordFile.data.cols * cellSize
            /\ canvas.height = coordFile.data.rows * cellSize
            /\ \A n \in 1..Len(compositeLayers) :
                   LET l == compositeLayers[n]
                   IN  /\ l.input.size = cellSize
                       /\ \E i \in 1..Len(coords) :
                              l.left = cellLeft(i) /\ l.top = cellTop(i)
                       /\ 0 <= l.left
                       /\ l.left + l.input.size <= canvas.width
                       /\ 0 <= l.top
                       /\ l.top + l.input.size <= canvas.height

\* The record was composited into the atlas that was written.
Composited(a) ==
    /\ a.type = "texture_blocks"
    /\ terrainPng.written
    /\ \E n \in 1..Len(terrainPng.layers) :
           terrainPng.layers[n].input.name = getTextureNameFromPath(a.relativePath)

\* C32: in a transform that reached its copy, the records copied to their
\* relative path in the output are records that were not composited into
\* the atlas; once it has returned, every such record was copied or is in
\* skippedFiles after a failed copy, and the result is a success.
C32_CopyThrough ==
    /\ \A i \in 1..Len(assets) :
           Composited(assets[i]) => assets[i].relativePath \notin outFiles
    /\ (atlasResult.returned /\ copyIdx > 1) =>
           /\ atlasResult.success
           /\ \A i \in 1..Len(assets) :
                  ~Composited(assets[i]) =>
                      \/ assets[i].relativePath \in outFiles
                      \/ assets[i].relativePath \in Range(skippedFiles)

\* ------------------------------------------------ claims on cancellation
\* The call at i was cancelled: its timer was cleared and no later
\* scheduleBuild of its profile replaced it.
Cancelled(i) ==
    /\ reqs[i].st = "cleared"
    /\ \A j \in Ids(reqs) :
           (j > i /\ reqs[j].kind = "sched") => reqs[j].key # reqs[i].key

\* The states of a call whose build has ended.
EndedStates == StartedStates \ {"running"}

\* C33: cancelPendingBuild(v) clears the pending timer of v and changes no
\* other call, no other timer and not the building set; cancelAllPending
\* clears every pending timer and changes nothing else; a build in flight
\* stays in flight until it ends, and a cleared timer never starts a build.
C33_CancellationFrame ==
    [][/\ \A v \in QueueKeys :
             CancelPendingBuild(v) =>
                 /\ building' = building
                 /\ queues'[v] = 0
                 /\ \A k \in Keys \ {v} : queues'[k] = queues[k]
                 /\ reqs[queues[v]].st = "timer"
                 /\ reqs'[queues[v]].st = "cleared"
                 /\ \A i \in Ids(reqs) \ {queues[v]} : reqs'[i] = reqs[i]
       /\ CancelAllPending =>
             /\ building' = building
             /\ \A k \in Keys : queues'[k] = 0
             /\ \A i \in Ids(reqs) :
                    IF reqs[i].st = "timer"
                    THEN reqs'[i].st = "cleared"
                    ELSE reqs'[i] = reqs[i]
       /\ \A i \in Ids(reqs) :
             /\ reqs[i].st = "cleared" => reqs'[i].st = "cleared"
             /\ reqs[i].st = "running" =>
                    /\ reqs'[i].st \in {"running"} \cup EndedStates
                    /\ reqs'[i].st = "running" => reqs[i].key \in building'
             /\ reqs[i].st \in EndedStates => reqs'[i].st # "running"]_vars

\* A timer was cancelled while a build of its profile was in flight, and the
\* build is still in flight.
C33_Witness ==
    \E i, j \in Ids(reqs) :
        /\ Cancelled(i)
        /\ reqs[j].st = "running"
        /\ reqs[j].key = reqs[i].key
        /\ reqs[i].busy
        /\ \A k \in Ids(reqs) : reqs[k].key = reqs[i].key => k \in {i, j}

\* A step of the queue for profile a: a scheduleBuild, an executeBuild or a
\* cancelPendingBuild call, the firing of its timer, the end of its build.
StepOf(a) ==
    \/ ScheduleBuild(a)
    \/ ExecuteBuild(a)
    \/ CancelPendingBuild(a)
    \/ \E i \in Ids(reqs) :
           /\ reqs[i].key = a
           /\ TimerFire(i) \/ \E ok \in BOOLEAN : BuildFinish(i, ok)

\* C34: a step of the queue for profile a leaves, for every other profile b,
\* the pending timer of b, its membership of the building set and every
\* call of b as they were.
C34_ProfilesIndependent ==
    [][\A a \in QueueKeys :
          StepOf(a) =>
              \A b \in Keys \ {a} :
                  /\ queues'[b] = queues[b]
                  /\ (b \in building') = (b \in building)
                  /\ \A i \in Ids(reqs) :
                         reqs[i].key = b => reqs'[i] = reqs[i]]_vars

\* Builds of two profiles are in flight at the same time, in a run in which
\* a timer was cancelled.
C34_Witness ==
    \E i, j, c \in Ids(reqs) :
        /\ reqs[i].key # reqs[j].key
        /\ reqs[i].st = "running"
        /\ reqs[j].st = "running"
        /\ {reqs[i].key, reqs[j].key} \subseteq building
        /\ Cancelled(c)

\* ------------------------------------------------- claims on the fan-out
\* C35: after a change below versions/shared has fanned out, a call of one
\* profile whose build or deploy failed leaves the process running for the
\* calls of the other profiles that still wait for their timer, their build
\* or their deploy.
C35_FanOutIsolation ==
    (lastEvent.seen /\ UnderShared(lastEvent.path)) =>
        \A i, j \in Ids(reqs) :
            (/\ reqs[i].key # reqs[j].key
             /\ reqs[i].st \in {"rejected", "failed", "deployFailed", "exit"}
             /\ reqs[j].st \in {"timer", "running", "deploying"}) => alive

\* ---------------------------------------------------- claims on the deploy
\* C36: with config.backup set, every overwrite of an artifact that existed
\* at the target path comes right after a backup copy of that artifact, and
\* the copy is in the backup directory.
C36_BackupBeforeOverwrite ==
    \A n \in 1..Len(deployLog) :
        (deployLog[n].op = "overwrite" /\ deployLog[n].backup) =>
            /\ n > 1
            /\ deployLog[n - 1] = logEntry("backup", deployLog[n].version,
                                           deployLog[n].content, TRUE)
            /\ \E f \in backupDir.files :
                   /\ f.version = deployLog[n].version
                   /\ f.content = deployLog[n].content

\* ------------------------------------- claims on the promises of the queue
\* The promise scheduleBuild returned for a call has settled: executeBuild
\* has rejected or its build has ended.
SettledStates == {"rejected"} \cup EndedStates

\* C37: the promise of every scheduleBuild call of the session settles in
\* the end, also when its timer was replaced or cancelled (unless the
\* process exits first).
C37_PromisesSettle ==
    \A i \in 1..MaxReq :
        (Len(reqs) >= i) ~>
            (~alive \/ (Len(reqs) >= i /\ reqs[i].st \in SettledStates))

\* No build of the profile of call i is in flight.
Free(i) ==
    \A j \in Ids(reqs) : reqs[j].key = reqs[i].key => reqs[j].st # "running"

\* C38: when the build of a call ends, resolved or thrown, its profile leaves
\* the building set; and a timer that fires while no build of its profile is
\* in flight starts a build.
C38_FailedBuildFreesProfile ==
    [][\A i \in Ids(reqs) :
          /\ (\E ok \in BOOLEAN : BuildFinish(i, ok)) =>
                 /\ reqs[i].key \notin building'
                 /\ reqs'[i].st \in EndedStates
          /\ (TimerFire(i) /\ Free(i)) =>
                 /\ reqs'[i].st = "running"
                 /\ reqs[i].key \in building']_vars

\* A build has failed, and a scheduleBuild of the same profile made after
\* that has started a new build.
C38_Witness ==
    \E i, j \in Ids(reqs) :
        /\ i < j
        /\ reqs[i].key = reqs[j].key
        /\ reqs[i].kind = "direct"
        /\ reqs[i].st = "failed"
        /\ reqs[j].kind = "sched"
        /\ ~reqs[j].busy
        /\ reqs[j].st = "running"
        /\ reqs[j].key \in building

\* ------------------------------------------ claims on the watcher lifecycle
\* C39: the watcher list never holds more than one watcher; while no stop()
\* is at its await, isRunning is true exactly when one watcher is
\* registered; and once stop() has returned isRunning is false and the list
\* is empty, also when close() has not settled.
C39_WatcherLifecycle ==
    /\ watchers \in {0, 1}
    /\ stopPc # "closing" => (isRunning <=> watchers = 1)
    /\ stopPc = "returned" => (~isRunning /\ watchers = 0)

\* A session with a pending build was stopped, and stop() has returned on
\* its timeout while close() is still unsettled.
C39_Witness ==
    /\ stopPc = "returned"
    /\ fsw = "closing"
    /\ closeRem = -1
    /\ \E i \in Ids(reqs) : Cancelled(i)

====
